---- MODULE Spec2Model ----
(***************************************************************************)
(* A model of the tree-scoring core of src/src/App.tsx (the same code is   *)
(* repeated in the mobile-aware variant): the k-d tree and its k-nearest   *)
(* search, the area interpolation of rents, name normalization, the rent   *)
(* lookup and the scoring passes of parseTreeData.                         *)
(*                                                                         *)
(* Numbers.  A JavaScript number is a record: Num(v) for a finite value,   *)
(* NaN, Infinity; null is a record of its own.  Finite values are integers *)
(* in a unit fixed per quantity:                                           *)
(*   coordinates      1/10000 of a degree (1 degree = 10000)               *)
(*   distances        metres, rounded to the nearest metre                 *)
(*   rents            the number written in the table                      *)
(*   scores           thousandths (10.0 = 10000), quotients rounded down   *)
(*   composite score  ten-thousandths (11.0 = 110000)                      *)
(* Two quantities are kept as exact fractions [n, d] because the code      *)
(* tests them against 0 or compares them: the average neighbour distance   *)
(* and the interpolated rent (with its weights).  The divisions that give  *)
(* the three weights are also carried out in IEEE 754 binary64, bit for    *)
(* bit, where their rounding is what is asked about (SpecWeights).         *)
(*                                                                         *)
(* Strings are sequences of one-character strings.                         *)
(***************************************************************************)
EXTENDS Integers, Sequences, FiniteSets, TLC

VARIABLES
  kdPc,              \* SpecKd: "input" | "built"
  points,            \* IndexedTreePoint[] handed to buildKdTree
  kdTreeRoot,        \* KdTreeNode | null
  kdTarget,          \* index of the last queried point, -1 before any query
  neighborDistances, \* result of the last findKNearestNeighborDistances
  nmPc,              \* SpecNames: "input" | "name" | "key"
  nmValue,           \* the string handed to the normalizer
  nmOnce,            \* the normalizer applied once
  nmTwice,           \* the normalizer applied to its own result
  rentPc,            \* SpecRent: "header" | "rows" | "done"
  rentIndices,       \* <<nameIndex, rentIndex>> found in the header row
  rentRowsRead,      \* data lines of the rent table consumed so far
  rentLookup,        \* Map<string, number>: key -> rent
  areaPc,            \* SpecArea: "rents" | "areas"
  neighborhoods,     \* NeighborhoodRecord[]
  located,           \* per located point: its matches, weights, estimate, score
  wtPc,              \* SpecWeights: "distances" | "done"
  wtDistances,       \* the distances d1, d2, d3 given so far
  wtWeights,         \* [weight1, weight2, weight3] as binary64 numbers
  wtExactSum,        \* their sum in real arithmetic
  wtDoubleSum,       \* weight1 + weight2 + weight3 evaluated in binary64
  treePc,            \* Spec: "load" | "rows" | "friends" | "access" | "done"
  treeRowsRead,      \* rows of the tree table read so far
  treeRows,          \* those rows, as read
  parsedTrees,       \* TreeRecord[]
  treeTrace,         \* per tree: the estimate it was built from, what each pass did
  treeKdRoot,        \* kdTreeRoot of assignTreeFriendsScores
  treeCursor,        \* index of the next tree of the running forEach
  linePc,            \* SpecLines: "compose" | "written" | "split"
  lineContents,      \* the contents of the lines of the text being composed
  csvData,           \* the raw text handed to the parser
  textLines,         \* csvData split into its non-empty lines
  csvPc,             \* SpecCsv: "input" | "parsed"
  csvLine,           \* the line handed to parseCsvLine
  csvFields,         \* the string[] it returned
  appPc,             \* SpecApp: "unmounted" | "mounted"
  cellTreeIndices,   \* per cell (from 0): index into trees, -1 without trees
  tooltip,           \* TooltipState | null: the tree whose lines are shown
  isMobile,          \* what useIsMobile returns
  mobileActiveCell,  \* number | null
  hovered,           \* the cell the pointer is in, null outside the grid
  openedTree,        \* the tree whose location was last opened, null if none
  scorePc,           \* SpecScore: "draw" | "friends" | "access" | "done"
  scoreTree,         \* the TreeRecord being scored
  scoreNeighbors,    \* neighborDistances.length
  scoreAverage,      \* averageDistance
  scoreHealth,       \* healthScore of assignAccessibilityScores
  rowPc,             \* SpecRows: "header" | "rows"
  rowHeaders,        \* headers = parseCsvLine(lines[0])
  rowTrace,          \* per line read: its values, and where its records went
  rowTrees,          \* what parseTreeData keeps of the lines, before the passes
  rowAreas,          \* what parseNeighborhoodData keeps of the lines
  rentRows,          \* SpecLookup: the data lines parseRentData has read
  lookupName,        \* the name last handed to getNeighborhoodRent, undefined before
  lookupRent         \* what getNeighborhoodRent returned for it

kdVars == <<kdPc, points, kdTreeRoot, kdTarget, neighborDistances>>

nmVars == <<nmPc, nmValue, nmOnce, nmTwice>>

rentVars == <<rentPc, rentIndices, rentRowsRead, rentLookup>>

areaVars == <<areaPc, neighborhoods, located>>

wtVars == <<wtPc, wtDistances, wtWeights, wtExactSum, wtDoubleSum>>

treeVars == <<treePc, treeRowsRead, treeRows, parsedTrees, treeTrace, treeKdRoot, treeCursor>>

lineVars == <<linePc, lineContents, csvData, textLines>>

csvVars == <<csvPc, csvLine, csvFields>>

appVars ==
  <<appPc, cellTreeIndices, tooltip, isMobile, mobileActiveCell, hovered, openedTree>>

scoreVars == <<scorePc, scoreTree, scoreNeighbors, scoreAverage, scoreHealth>>

rowVars == <<rowPc, rowHeaders, rowTrace, rowTrees, rowAreas>>

lookupVars == <<rentRows, lookupName, lookupRent>>

vars ==
  <<kdVars, nmVars, rentVars, areaVars, wtVars, treeVars, lineVars, csvVars, appVars,
    scoreVars, rowVars, lookupVars>>

-----------------------------------------------------------------------------
(* JavaScript values *)

null == [kind |-> "null"]
undefined == <<"undefined">>
NaN == [kind |-> "NaN"]
Infinity == [kind |-> "Infinity"]
NegativeInfinity == [kind |-> "-Infinity"]
Num(v) == [kind |-> "number", v |-> v]

\* Number.isFinite
IsFinite(x) == x.kind = "number"

\* a < b on numbers: false when either is NaN, a finite a is below Infinity
LessThan(a, b) ==
  IF a.kind = "NaN" \/ b.kind = "NaN" THEN FALSE
  ELSE IF a.kind = "Infinity" \/ b.kind = "-Infinity" THEN FALSE
  ELSE IF b.kind = "Infinity" \/ a.kind = "-Infinity" THEN TRUE
  ELSE a.v < b.v

Abs(x) == IF x < 0 THEN -x ELSE x

Min(a, b) == IF a < b THEN a ELSE b

Max(a, b) == IF a > b THEN a ELSE b

\* Math.min(Math.max(value, min), max) on finite values of one unit
clamp(value, min, max) == Min(Max(value, min), max)

\* a / b rounded toward minus infinity, b # 0
FloorDiv(a, b) == IF b > 0 THEN a \div b ELSE (-a) \div (-b)

\* the exact quotient n / d, d > 0
Fraction(n, d) == [n |-> n, d |-> d]

\* a < b on exact quotients
FractionLess(a, b) == a.n * b.d < b.n * a.d

\* Array.prototype.sort with a numeric comparator is stable: x goes after
\* every element that does not compare greater than it.
RECURSIVE InsertPair(_, _)
InsertPair(sorted, x) ==
  IF sorted = <<>> THEN <<x>>
  ELSE IF sorted[Len(sorted)].key <= x.key THEN Append(sorted, x)
  ELSE Append(InsertPair(SubSeq(sorted, 1, Len(sorted) - 1), x), sorted[Len(sorted)])

RECURSIVE SortPairs(_)
SortPairs(pairs) ==
  IF pairs = <<>> THEN <<>>
  ELSE InsertPair(SortPairs(SubSeq(pairs, 1, Len(pairs) - 1)), pairs[Len(pairs)])

\* the elements of a sorted list of [key, val] pairs
SortedValues(pairs) ==
  LET sorted == SortPairs(pairs)
  IN [i \in 1..Len(pairs) |-> sorted[i].val]

\* numbers.sort((a, b) => a - b)
SortNumbers(numbers) ==
  SortedValues([i \in 1..Len(numbers) |-> [key |-> numbers[i], val |-> numbers[i]]])

-----------------------------------------------------------------------------
(* Strings and name normalization *)

\* A string is a sequence of one-character strings.  A value that is not a
\* string (an inherited property of an object literal, a thrown TypeError)
\* is a one-element sequence holding its description.
IsString(value) == \A i \in 1..Len(value) : Len(value[i]) = 1

ObjectConstructor == <<"[Function: Object]">>

ObjectPrototype == <<"[Object: null prototype] {}">>

ObjectPrototypeMethod == <<"[Function (anonymous)]">>

TypeError == <<"TypeError: value.replace is not a function">>

UpperCaseLetters == <<"A", "B", "C", "D", "E", "F", "G", "H", "I", "J", "K", "L", "M", "N", "O", "P", "Q", "R", "S", "T", "U", "V", "W", "X", "Y", "Z">>

LowerCaseLetters == <<"a", "b", "c", "d", "e", "f", "g", "h", "i", "j", "k", "l", "m", "n", "o", "p", "q", "r", "s", "t", "u", "v", "w", "x", "y", "z">>

toLowerCaseChar(c) ==
  IF \E i \in 1..26 : UpperCaseLetters[i] = c
  THEN LowerCaseLetters[CHOOSE i \in 1..26 : UpperCaseLetters[i] = c]
  ELSE c

toLowerCase(value) == [i \in 1..Len(value) |-> toLowerCaseChar(value[i])]

\* the characters of the class \s that the model's texts use
CarriageReturn == "\r"

LineFeed == "\n"

\* U+FEFF, the byte-order marker
ByteOrderMark == "﻿"

IsWhitespace(c) == c \in {" ", "\t", CarriageReturn, LineFeed, ByteOrderMark}

RECURSIVE SkipWhitespace(_)
SkipWhitespace(value) ==
  IF value = <<>> THEN <<>>
  ELSE IF IsWhitespace(Head(value)) THEN SkipWhitespace(Tail(value))
  ELSE value

\* value.replace(/\s+/g, ' ')
RECURSIVE ReplaceWhitespaceRuns(_)
ReplaceWhitespaceRuns(value) ==
  IF value = <<>> THEN <<>>
  ELSE IF IsWhitespace(Head(value))
       THEN <<" ">> \o ReplaceWhitespaceRuns(SkipWhitespace(Tail(value)))
       ELSE <<Head(value)>> \o ReplaceWhitespaceRuns(Tail(value))

RECURSIVE TrimEnd(_)
TrimEnd(value) ==
  IF value = <<>> THEN <<>>
  ELSE IF IsWhitespace(value[Len(value)]) THEN TrimEnd(SubSeq(value, 1, Len(value) - 1))
  ELSE value

\* String.prototype.trim
Trim(value) == TrimEnd(SkipWhitespace(value))

Unknown == <<"U", "n", "k", "n", "o", "w", "n">>

normalizeNeighborhoodName(value) ==
  IF ~IsString(value) THEN TypeError
  ELSE LET trimmed == Trim(ReplaceWhitespaceRuns(value))
       IN IF trimmed = <<>> THEN Unknown ELSE trimmed

GramecyPark == <<"g", "r", "a", "m", "e", "c", "y", " ", "p", "a", "r", "k">>

GramercyPark == <<"g", "r", "a", "m", "e", "r", "c", "y", " ", "p", "a", "r", "k">>

StuyvesantTown == <<"s", "t", "u", "y", "v", "e", "s", "a", "n", "t", " ", "t", "o", "w", "n">>

StuyvesantTownPcv == <<"s", "t", "u", "y", "v", "e", "s", "a", "n", "t", " ", "t", "o", "w", "n", "/", "p", "c", "v">>

\* The names Object.prototype gives every object literal.
ObjectPrototypeMethodNames ==
  { <<"t", "o", "S", "t", "r", "i", "n", "g">>,
    <<"v", "a", "l", "u", "e", "O", "f">>,
    <<"h", "a", "s", "O", "w", "n", "P", "r", "o", "p", "e", "r", "t", "y">> }

\* RENT_KEY_ALIASES[key]: the object's own two entries, then the properties
\* it inherits from Object.prototype; <<>> stands for undefined.
RentKeyAliasesGet(key) ==
  IF key = GramecyPark THEN GramercyPark
  ELSE IF key = StuyvesantTown THEN StuyvesantTownPcv
  ELSE IF key = <<"c", "o", "n", "s", "t", "r", "u", "c", "t", "o", "r">> THEN ObjectConstructor
  ELSE IF key = <<"_", "_", "p", "r", "o", "t", "o", "_", "_">> THEN ObjectPrototype
  ELSE IF key \in ObjectPrototypeMethodNames THEN ObjectPrototypeMethod
  ELSE <<>>

normalizeRentKey(value) ==
  LET normalized == normalizeNeighborhoodName(value)
  IN IF normalized = TypeError THEN TypeError
     ELSE IF normalized = <<>> \/ normalized = Unknown THEN <<>>
     ELSE LET lowered == toLowerCase(normalized)
              alias == RentKeyAliasesGet(lowered)
          IN IF alias # <<>> THEN alias ELSE lowered

-----------------------------------------------------------------------------
(* Number coercion and the rent lookup *)

DecimalDigits == <<"0", "1", "2", "3", "4", "5", "6", "7", "8", "9">>

IsDigit(c) == \E i \in 1..10 : DecimalDigits[i] = c

DigitValue(c) == (CHOOSE i \in 1..10 : DecimalDigits[i] = c) - 1

RECURSIVE DigitsValue(_)
DigitsValue(digits) ==
  IF digits = <<>> THEN 0
  ELSE 10 * DigitsValue(SubSeq(digits, 1, Len(digits) - 1)) + DigitValue(digits[Len(digits)])

InfinityText == <<"I", "n", "f", "i", "n", "i", "t", "y">>

\* Number(value) on the texts of the model: surrounding whitespace is
\* dropped, the empty text is 0, a signed run of digits is its value,
\* "Infinity" is infinite, any other text and undefined are NaN.
Number(value) ==
  IF ~IsString(value) THEN NaN
  ELSE LET text == Trim(value)
           signed == text # <<>> /\ Head(text) \in {"-", "+"}
           negative == text # <<>> /\ Head(text) = "-"
           body == IF signed THEN Tail(text) ELSE text
       IN IF text = <<>> THEN Num(0)
          ELSE IF body = InfinityText THEN (IF negative THEN NegativeInfinity ELSE Infinity)
          ELSE IF body # <<>> /\ \A i \in 1..Len(body) : IsDigit(body[i])
               THEN Num(IF negative THEN -DigitsValue(body) ELSE DigitsValue(body))
          ELSE NaN

\* values[index] with a 0-based index
ValueAt(values, index) ==
  IF index >= 0 /\ index < Len(values) THEN values[index + 1] ELSE undefined

\* a missing value left as it is
KeepMissing(value) == value

\* value ?? ''
OrEmpty(value) == IF value = undefined THEN <<>> ELSE value

\* headers.findIndex((header) => header.toLowerCase() === name), -1 if none
FindHeaderIndex(headers, name) ==
  IF \E i \in 1..Len(headers) : toLowerCase(headers[i]) = name
  THEN (CHOOSE i \in 1..Len(headers) :
          /\ toLowerCase(headers[i]) = name
          /\ \A j \in 1..(i - 1) : toLowerCase(headers[j]) # name) - 1
  ELSE -1

AreaNameHeader == <<"a", "r", "e", "a", "n", "a", "m", "e">>

RentHeader == <<"r", "e", "n", "t">>

\* rentLookup.set(key, value)
MapSet(map, key, value) ==
  [k \in (DOMAIN map) \cup {key} |-> IF k = key THEN value ELSE map[k]]

\* RentRowKept without the Number.isFinite test
RentRowKeptAnyNumber(key, rentValue) == key # <<>>

\* the test of line 320 of parseRentData, negated: the row is kept
RentRowKept(key, rentValue) == key # <<>> /\ IsFinite(rentValue)

\* the forEach callback of parseRentData on one parsed line
ParseRentRow(lookup, values, nameIndex, rentIndex) ==
  LET key == normalizeRentKey(OrEmpty(ValueAt(values, nameIndex)))
      rentValue == Number(ValueAt(values, rentIndex))
  IN IF RentRowKept(key, rentValue) THEN MapSet(lookup, key, rentValue) ELSE lookup

RECURSIVE ParseRentRows(_, _, _, _)
ParseRentRows(lookup, rows, nameIndex, rentIndex) ==
  IF rows = <<>> THEN lookup
  ELSE ParseRentRows(ParseRentRow(lookup, Head(rows), nameIndex, rentIndex),
                     Tail(rows), nameIndex, rentIndex)

EmptyMap == [k \in {} |-> null]

\* parseRentData on the parsed lines of the table, the header row first
parseRentData(lines) ==
  IF Len(lines) <= 1 THEN EmptyMap
  ELSE LET headers == lines[1]
           nameIndex == FindHeaderIndex(headers, AreaNameHeader)
           rentIndex == FindHeaderIndex(headers, RentHeader)
       IN IF nameIndex = -1 \/ rentIndex = -1 THEN EmptyMap
          ELSE ParseRentRows(EmptyMap, Tail(lines), nameIndex, rentIndex)

\* rentLookup.get(key) ?? null
\* getNeighborhoodRent looking the lower-cased name up as it is
getNeighborhoodRentByLoweredName(name, lookup) ==
  LET normalized == normalizeNeighborhoodName(name)
      key == IF normalized = Unknown THEN <<>> ELSE toLowerCase(normalized)
  IN IF key = <<>> THEN null
     ELSE IF key \in DOMAIN lookup THEN lookup[key] ELSE null

getNeighborhoodRent(name, lookup) ==
  LET key == normalizeRentKey(name)
  IN IF key = <<>> THEN null
     ELSE IF key \in DOMAIN lookup THEN lookup[key] ELSE null

-----------------------------------------------------------------------------
(* Geodesic distance module *)

\* earthRadius * 2 * atan2(sqrt(a), sqrt(1 - a)) of getDistanceInMeters,
\* a = sin^2(dLat/2) + cos(lat1) cos(lat2) sin^2(dLng/2), earthRadius =
\* 6371000, evaluated in double precision and rounded to the metre, for
\* <<origin latitude, target latitude, |longitude difference|>> on the two
\* coordinate grids of the model: the fine grid {0, 1, 2} (steps of 0.0001
\* degree, about 11 m) and the coarse grid {0, 10000} (steps of 1 degree).
HaversineMeters ==
     <<0, 0, 0>> :> 0 @@ <<0, 0, 1>> :> 11 @@ <<0, 0, 2>> :> 22 @@ <<0, 1, 0>> :> 11 @@
     <<0, 1, 1>> :> 16 @@ <<0, 1, 2>> :> 25 @@ <<0, 2, 0>> :> 22 @@ <<0, 2, 1>> :> 25 @@
     <<0, 2, 2>> :> 31 @@ <<1, 0, 0>> :> 11 @@ <<1, 0, 1>> :> 16 @@ <<1, 0, 2>> :> 25 @@
     <<1, 1, 0>> :> 0 @@ <<1, 1, 1>> :> 11 @@ <<1, 1, 2>> :> 22 @@ <<1, 2, 0>> :> 11 @@
     <<1, 2, 1>> :> 16 @@ <<1, 2, 2>> :> 25 @@ <<2, 0, 0>> :> 22 @@ <<2, 0, 1>> :> 25 @@
     <<2, 0, 2>> :> 31 @@ <<2, 1, 0>> :> 11 @@ <<2, 1, 1>> :> 16 @@ <<2, 1, 2>> :> 25 @@
     <<2, 2, 0>> :> 0 @@ <<2, 2, 1>> :> 11 @@ <<2, 2, 2>> :> 22 @@
     <<0, 0, 10000>> :> 111195 @@ <<0, 10000, 0>> :> 111195 @@
     <<0, 10000, 10000>> :> 157249 @@ <<10000, 0, 0>> :> 111195 @@
     <<10000, 0, 10000>> :> 157249 @@ <<10000, 10000, 0>> :> 0 @@
     <<10000, 10000, 10000>> :> 111178 @@
     <<0, 10000, 1>> :> 111195 @@ <<10000, 0, 1>> :> 111195 @@
     <<1, 10000, 0>> :> 111184 @@ <<10000, 1, 0>> :> 111184 @@
     <<1, 10000, 1>> :> 111184 @@ <<10000, 1, 1>> :> 111184 @@
     <<10000, 10000, 1>> :> 11

\* stands for 1e308 degrees: from 5.73e307 degrees up, degrees * Math.PI is
\* infinite in binary64, and so is toRadians(degrees)
OverflowDegrees == 2 ^ 30

\* toRadians(degrees) is finite
RadiansFinite(degrees) == Abs(degrees) < OverflowDegrees

\* the sine and cosine of an infinite angle are NaN, and so is the distance
getDistanceInMeters(originLat, originLng, targetLat, targetLng) ==
  IF /\ RadiansFinite(targetLat - originLat)
     /\ RadiansFinite(targetLng - originLng)
     /\ RadiansFinite(originLat)
     /\ RadiansFinite(targetLat)
  THEN Num(HaversineMeters[<<originLat, targetLat, Abs(targetLng - originLng)>>])
  ELSE NaN

\* 111320 * cos(latitude), metres per degree of longitude rounded to the
\* metre: cos is 1 to nine places on the fine grid, 0.99984770 at 1 degree.
\* The code floors a non-finite or negative product at 0.
getMetersPerDegreeLongitude(latitude) ==
  LET meters == IF latitude = 10000 THEN 111303 ELSE 111320
  IN IF meters > 0 THEN meters ELSE 0

\* deltaDegrees is in 1/10000 degree, the result in metres (rounded down).
getAxisDistanceMeters(deltaDegrees, axis, referenceLatitude) ==
  IF deltaDegrees = 0 THEN 0
  ELSE IF axis = 0 THEN FloorDiv(deltaDegrees * 111132, 10000)
  ELSE FloorDiv(deltaDegrees * getMetersPerDegreeLongitude(referenceLatitude), 10000)

-----------------------------------------------------------------------------
(* IEEE 754 binary64 quotients and sums of magnitude below 4.  A number is *)
(* a sign and a magnitude <<whole, l1, l2, l3>>: the value is               *)
(* whole + l1 / B + l2 / B^2 + l3 / B^3 with B = LimbBase, each limb below *)
(* B, so the last place weighs 2^-63.  A binary64 number of exponent e,    *)
(* -10 <= e <= 1, has its last significant bit at 2^(e - 52), in limb l3.  *)

SignificandBits == 53

LimbBase == 2 ^ 21

ZeroLimbs == <<0, 0, 0, 0>>

\* a + b on magnitudes
AddLimbs(a, b) ==
  LET s3 == a[4] + b[4]
      s2 == a[3] + b[3] + s3 \div LimbBase
      s1 == a[2] + b[2] + s2 \div LimbBase
  IN <<a[1] + b[1] + s1 \div LimbBase, s1 % LimbBase, s2 % LimbBase, s3 % LimbBase>>

\* a - b on magnitudes, a >= b
SubLimbs(a, b) ==
  LET s3 == a[4] - b[4]
      s2 == a[3] - b[3] - (IF s3 < 0 THEN 1 ELSE 0)
      s1 == a[2] - b[2] - (IF s2 < 0 THEN 1 ELSE 0)
  IN <<a[1] - b[1] - (IF s1 < 0 THEN 1 ELSE 0),
       (s1 + LimbBase) % LimbBase, (s2 + LimbBase) % LimbBase, (s3 + LimbBase) % LimbBase>>

\* a < b on magnitudes
LessLimbs(a, b) ==
  \E i \in 1..4 : a[i] < b[i] /\ \A j \in 1..(i - 1) : a[j] = b[j]

\* the binary exponent e of a magnitude at least 2^-21: 2^e <= value < 2^(e + 1)
Exponent(limbs) ==
  IF limbs[1] >= 2 THEN 1
  ELSE IF limbs[1] = 1 THEN 0
  ELSE (CHOOSE k \in 0..20 : 2 ^ k <= limbs[2] /\ limbs[2] < 2 ^ (k + 1)) - 21

\* round to nearest, ties to even, at SignificandBits significant bits;
\* inexact: the exact value has further non-zero bits below the last place.
\* A magnitude below 2^-10 has all its bits within the significand.
RoundLimbs(limbs, inexact) ==
  IF limbs[1] = 0 /\ limbs[2] < 2 ^ 11 THEN limbs
  ELSE LET ulp == 2 ^ (Exponent(limbs) + 63 - (SignificandBits - 1))
           low == limbs[4] % ulp
           kept == <<limbs[1], limbs[2], limbs[3], limbs[4] - low>>
           odd == (limbs[4] \div ulp) % 2 = 1
           up == \/ 2 * low > ulp
                 \/ 2 * low = ulp /\ (inexact \/ odd)
       IN IF up THEN AddLimbs(kept, <<0, 0, 0, ulp>>) ELSE kept

\* n / d in binary64, 0 < d < 2^10 and |n| < 4 * d, by long division
DoubleDivide(n, d) ==
  LET whole == Abs(n) \div d
      r0 == Abs(n) % d
      r1 == (r0 * LimbBase) % d
      r2 == (r1 * LimbBase) % d
      r3 == (r2 * LimbBase) % d
      limbs == <<whole, (r0 * LimbBase) \div d, (r1 * LimbBase) \div d,
                 (r2 * LimbBase) \div d>>
  IN [negative |-> n < 0 /\ limbs # ZeroLimbs, limbs |-> RoundLimbs(limbs, r3 # 0)]

\* x + y in real arithmetic
ExactAdd(x, y) ==
  LET sum == IF x.negative = y.negative
             THEN [negative |-> x.negative, limbs |-> AddLimbs(x.limbs, y.limbs)]
             ELSE IF LessLimbs(x.limbs, y.limbs)
             THEN [negative |-> y.negative, limbs |-> SubLimbs(y.limbs, x.limbs)]
             ELSE [negative |-> x.negative, limbs |-> SubLimbs(x.limbs, y.limbs)]
  IN IF sum.limbs = ZeroLimbs THEN [negative |-> FALSE, limbs |-> ZeroLimbs] ELSE sum

\* x + y in binary64
DoubleAdd(x, y) ==
  LET sum == ExactAdd(x, y)
  IN [negative |-> sum.negative, limbs |-> RoundLimbs(sum.limbs, FALSE)]

DoubleOne == [negative |-> FALSE, limbs |-> <<1, 0, 0, 0>>]

DoubleMinusOne == [negative |-> TRUE, limbs |-> <<1, 0, 0, 0>>]

\* 2^-51, four units in the last place of 1
RoundingTolerance == <<0, 0, 0, 2 ^ 12>>

\* weight = numerator / denominator as the division of line 391 yields it
DoubleQuotient(fraction) == DoubleDivide(fraction.n, fraction.d)

-----------------------------------------------------------------------------
(* Area interpolator *)

NEAREST_NEIGHBOR_COUNT == 3

\* matches.sort((a, b) => a.distance - b.distance)
SortMatches(matches) ==
  SortedValues([i \in 1..Len(matches) |-> [key |-> matches[i].distance, val |-> matches[i]]])

\* a candidate as near as the farthest kept match counts as closer
IsCloserOrTied(distance, farthestDistance) == distance <= farthestDistance

\* distance < farthestDistance
IsCloser(distance, farthestDistance) == distance < farthestDistance

\* the forEach callback of getClosestNeighborhoodMatches on one area
OfferNeighborhood(matches, latitude, longitude, neighborhood, lookup, limit) ==
  LET distance == getDistanceInMeters(latitude, longitude,
                                      neighborhood.latitude, neighborhood.longitude)
  IN IF ~IsFinite(distance) THEN matches
     ELSE LET match == [name |-> neighborhood.name,
                        distance |-> distance.v,
                        rent |-> getNeighborhoodRent(neighborhood.name, lookup)]
          IN IF Len(matches) < limit THEN SortMatches(Append(matches, match))
             ELSE LET farthestDistance == matches[Len(matches)].distance
                  IN IF IsCloser(distance.v, farthestDistance)
                     THEN SortMatches([matches EXCEPT ![Len(matches)] = match])
                     ELSE matches

RECURSIVE OfferNeighborhoods(_, _, _, _, _, _)
OfferNeighborhoods(matches, latitude, longitude, areas, lookup, limit) ==
  IF areas = <<>> THEN matches
  ELSE OfferNeighborhoods(
         OfferNeighborhood(matches, latitude, longitude, Head(areas), lookup, limit),
         latitude, longitude, Tail(areas), lookup, limit)

getClosestNeighborhoodMatches(latitude, longitude, areas, lookup, limit) ==
  IF Len(areas) = 0 \/ limit <= 0 THEN <<>>
  ELSE OfferNeighborhoods(<<>>, latitude, longitude, areas, lookup, limit)

\* the name of the farthest kept match
farthestNeighborhood(nearestMatches) ==
  IF Len(nearestMatches) > 0 THEN nearestMatches[Len(nearestMatches)].name ELSE Unknown

\* nearestMatches[0]?.name ?? 'Unknown'
closestNeighborhood(nearestMatches) ==
  IF Len(nearestMatches) > 0 THEN nearestMatches[1].name ELSE Unknown

\* weight3 with the sign of d3 slipped
weight3SignSlip(d1, d2, d3) == Fraction(d1 + d2 + d3, d1 + d2 + d3)

\* weight3 floored at 0
weight3Clamped(d1, d2, d3) == Fraction(Max(d1 + d2 - d3, 0), d1 + d2 + d3)

\* the three interpolation weights as the operands of their divisions, over
\* the common denominator d1 + d2 + d3
weight1(d1, d2, d3) == Fraction(d2 + d3 - d1, d1 + d2 + d3)

weight2(d1, d2, d3) == Fraction(d1 + d3 - d2, d1 + d2 + d3)

weight3(d1, d2, d3) == Fraction(d1 + d2 - d3, d1 + d2 + d3)

\* [weight1, weight2, weight3] of calculateExpectedRent, <<>> when the
\* function returns before computing them
InterpolationWeights(matches) ==
  IF Len(matches) < 3 THEN <<>>
  ELSE LET d1 == Max(matches[1].distance, 0)
           d2 == Max(matches[2].distance, 0)
           d3 == Max(matches[3].distance, 0)
       IN IF matches[1].rent = null \/ matches[2].rent = null \/ matches[3].rent = null
          THEN <<>>
          ELSE IF d1 + d2 + d3 = 0 THEN <<>>
          ELSE <<weight1(d1, d2, d3), weight2(d1, d2, d3), weight3(d1, d2, d3)>>

\* calculateExpectedRent averaging whatever rents are known
calculateExpectedRentOfKnown(matches) ==
  LET known == SelectSeq(matches, LAMBDA match : match.rent # null)
      total == IF Len(known) = 0 THEN 0
               ELSE IF Len(known) = 1 THEN known[1].rent.v
               ELSE IF Len(known) = 2 THEN known[1].rent.v + known[2].rent.v
               ELSE known[1].rent.v + known[2].rent.v + known[3].rent.v
  IN IF Len(known) = 0 THEN null ELSE Num(Fraction(total, Len(known)))

\* the estimate is an exact quotient: the mean over 3, or the weighted sum
\* over the weights' common denominator
calculateExpectedRent(matches) ==
  IF Len(matches) < 3 THEN null
  ELSE LET x1 == matches[1]
           x2 == matches[2]
           x3 == matches[3]
       IN IF x1.rent = null \/ x2.rent = null \/ x3.rent = null THEN null
          ELSE LET d1 == Max(x1.distance, 0)
                   d2 == Max(x2.distance, 0)
                   d3 == Max(x3.distance, 0)
                   denominator == d1 + d2 + d3
               IN IF denominator = 0
                  THEN Num(Fraction(x1.rent.v + x2.rent.v + x3.rent.v, 3))
                  ELSE Num(Fraction(weight1(d1, d2, d3).n * x1.rent.v
                                      + weight2(d1, d2, d3).n * x2.rent.v
                                      + weight3(d1, d2, d3).n * x3.rent.v,
                                    denominator))

\* calculateAffordabilityScore growing with the rent: rent / 1000, clamped
calculateAffordabilityScoreRising(expectedRent) ==
  IF ~IsFinite(expectedRent) \/ expectedRent.v.n = 0 THEN Num(0)
  ELSE Num(clamp(FloorDiv(expectedRent.v.n, expectedRent.v.d), 0, 10000))

\* 36370 / expectedRent - 2.737 in thousandths, clamped to [0, 10]
calculateAffordabilityScore(expectedRent) ==
  IF ~IsFinite(expectedRent) \/ expectedRent.v.n = 0 THEN Num(0)
  ELSE LET score == FloorDiv(36370 * 1000 * expectedRent.v.d, expectedRent.v.n) - 2737
       IN Num(clamp(score, 0, 10000))

\* the affordability score of a tree, 0 when there is no estimate
AffordabilityOrZero(expectedRent) ==
  IF expectedRent # null THEN calculateAffordabilityScore(expectedRent) ELSE Num(0)

\* expectedRent != null ? calculateAffordabilityScore(expectedRent) : null
AffordabilityOf(expectedRent) ==
  IF expectedRent # null THEN calculateAffordabilityScore(expectedRent) ELSE null

-----------------------------------------------------------------------------
(* Spatial index *)

\* neighborCount = 5, the default parameter of assignTreeFriendsScores
neighborCount == 5

AxisValue(p, axis) == IF axis = 0 THEN p.latitude ELSE p.longitude

\* the same sort on the other axis
SortPointsByOtherAxis(pts, axis) ==
  SortedValues([i \in 1..Len(pts) |-> [key |-> AxisValue(pts[i], 1 - axis), val |-> pts[i]]])

\* [...points].sort((a, b) => (axis === 0 ? a.latitude - b.latitude
\*                                        : a.longitude - b.longitude))
SortPointsByAxis(pts, axis) ==
  SortedValues([i \in 1..Len(pts) |-> [key |-> AxisValue(pts[i], axis), val |-> pts[i]]])

\* the lower of the two middle positions
lowerMedianIndex(sorted) == (Len(sorted) - 1) \div 2

\* Math.floor(sorted.length / 2), a 0-based position
medianIndex(sorted) == Len(sorted) \div 2

RECURSIVE buildKdTree(_, _)
buildKdTree(pts, depth) ==
  IF Len(pts) = 0 THEN null
  ELSE LET axis == depth % 2
           sorted == SortPointsByAxis(pts, axis)
           medianPoint == sorted[medianIndex(sorted) + 1]
       IN [point |-> medianPoint,
           axis |-> axis,
           left |-> buildKdTree(SubSeq(sorted, 1, medianIndex(sorted)), depth + 1),
           right |-> buildKdTree(SubSeq(sorted, medianIndex(sorted) + 2, Len(sorted)),
                                 depth + 1)]

\* addDistance: keep the k smallest finite distances, sorted
addDistance(distances, distance, k) ==
  IF ~IsFinite(distance) THEN distances
  ELSE LET pushed == SortNumbers(Append(distances, distance.v))
       IN IF Len(pushed) > k THEN SubSeq(pushed, 1, Len(pushed) - 1) ELSE pushed

\* the target recognised by its place on the map
IsTargetByPlace(point, target) ==
  point.latitude = target.latitude /\ point.longitude = target.longitude

\* node.point.index !== target.index (line 720), negated
IsTarget(point, target) == point.index = target.index

\* search(node) of findKNearestNeighborDistances; the closure variable
\* distances is threaded through the recursion.
RECURSIVE search(_, _, _, _)
search(node, target, k, distances) ==
  IF node = null THEN distances
  ELSE LET targetValue == AxisValue(target, node.axis)
           nodeValue == AxisValue(node.point, node.axis)
           nextNode == IF targetValue < nodeValue THEN node.left ELSE node.right
           farNode == IF targetValue < nodeValue THEN node.right ELSE node.left
           afterNext == search(nextNode, target, k, distances)
           afterNode ==
             IF ~IsTarget(node.point, target)
             THEN addDistance(afterNext,
                              getDistanceInMeters(target.latitude, target.longitude,
                                                  node.point.latitude, node.point.longitude),
                              k)
             ELSE afterNext
           deltaDegrees == Abs(targetValue - nodeValue)
           axisDistanceMeters == getAxisDistanceMeters(deltaDegrees, node.axis, target.latitude)
           \* distances[distances.length - 1] ?? Number.POSITIVE_INFINITY
           currentMaxDistance ==
             IF Len(afterNode) > 0 THEN Num(afterNode[Len(afterNode)]) ELSE Infinity
       IN IF Len(afterNode) < k \/ LessThan(Num(axisDistanceMeters), currentMaxDistance)
          THEN search(farNode, target, k, afterNode)
          ELSE afterNode

findKNearestNeighborDistances(root, target, k) == search(root, target, k, <<>>)

-----------------------------------------------------------------------------
(* Scoring engine.  Density and affordability scores are in thousandths,   *)
(* rounded down; the normalized scores and the composite score are in      *)
(* ten-thousandths (a score times 4 / 10 is then a whole number).          *)

dead == <<"d", "e", "a", "d">>

stump == <<"s", "t", "u", "m", "p">>

alive == <<"a", "l", "i", "v", "e">>

nodamage == <<"n", "o", "d", "a", "m", "a", "g", "e">>

none == <<"n", "o", "n", "e">>

\* calculateHealthScore comparing the status as written
calculateHealthScoreCaseSensitive(tree) ==
  IF tree.status = stump \/ tree.status = dead THEN 0
  ELSE LET statusDiffers == IF tree.status # alive THEN 1 ELSE 0
           sidewalkDiffers == IF tree.sidewalk # nodamage THEN 1 ELSE 0
           problemsDiffer == IF tree.problems # <<>> /\ Trim(tree.problems) # none
                             THEN 1 ELSE 0
           differences == statusDiffers + sidewalkDiffers + problemsDiffer
       IN IF differences = 0 THEN 3 ELSE IF differences = 1 THEN 2 ELSE 1

\* calculateHealthScore returning 3 - differences
calculateHealthScoreByDifference(tree) ==
  LET status == toLowerCase(tree.status)
  IN IF status = stump \/ status = dead THEN 0
     ELSE 3 - ((IF status # alive THEN 1 ELSE 0)
                 + (IF toLowerCase(tree.sidewalk) # nodamage THEN 1 ELSE 0)
                 + (IF tree.problems # <<>> /\ toLowerCase(Trim(tree.problems)) # none
                    THEN 1 ELSE 0))

calculateHealthScore(tree) ==
  LET status == toLowerCase(tree.status)
  IN IF status = stump \/ status = dead THEN 0
     ELSE LET statusDiffers == IF toLowerCase(tree.status) # alive THEN 1 ELSE 0
              sidewalkDiffers == IF toLowerCase(tree.sidewalk) # nodamage THEN 1 ELSE 0
              problemsDiffer == IF tree.problems # <<>>
                                   /\ toLowerCase(Trim(tree.problems)) # none
                                THEN 1 ELSE 0
              differences == statusDiffers + sidewalkDiffers + problemsDiffer
          IN IF differences = 0 THEN 3 ELSE IF differences = 1 THEN 2 ELSE 1

\* (clamp(score, 0, 10) / 10) * 4
normalizeTreeFriendsScore(score) ==
  IF ~IsFinite(score) THEN 0 ELSE clamp(score.v, 0, 10000) * 4

normalizeAffordabilityScore(value) ==
  IF value = null \/ ~IsFinite(value) THEN 0 ELSE clamp(value.v, 0, 10000) * 4

\* getTreeFriendsScore without the clamp
getTreeFriendsRawScore(averageDistance) ==
  IF ~IsFinite(averageDistance) \/ averageDistance.v.n <= 0 THEN Num(10000)
  ELSE IF averageDistance.v.n < 2 * averageDistance.v.d THEN Num(10000)
  ELSE Num(FloorDiv(10000 * averageDistance.v.d
                      - 120 * (averageDistance.v.n - 2 * averageDistance.v.d),
                    averageDistance.v.d))

\* getTreeFriendsScore falling from 0 metres on: 10 - 0.12 * averageDistance
getTreeFriendsScoreFromZero(averageDistance) ==
  IF ~IsFinite(averageDistance) \/ averageDistance.v.n <= 0 THEN Num(10000)
  ELSE IF averageDistance.v.n < 2 * averageDistance.v.d THEN Num(10000)
  ELSE Num(clamp(FloorDiv(10000 * averageDistance.v.d - 120 * averageDistance.v.n,
                          averageDistance.v.d), 0, 10000))

\* 10 - 0.12 * (averageDistance - 2) in thousandths, clamped to [0, 10];
\* averageDistance is an exact quotient of metres, or Infinity
getTreeFriendsScore(averageDistance) ==
  IF ~IsFinite(averageDistance) \/ averageDistance.v.n <= 0 THEN Num(10000)
  ELSE IF averageDistance.v.n < 2 * averageDistance.v.d THEN Num(10000)
  ELSE LET rawScore == FloorDiv(10000 * averageDistance.v.d
                                  - 120 * (averageDistance.v.n - 2 * averageDistance.v.d),
                                averageDistance.v.d)
       IN Num(clamp(rawScore, 0, 10000))

RECURSIVE SumNumbers(_)
SumNumbers(numbers) ==
  IF numbers = <<>> THEN 0 ELSE Head(numbers) + SumNumbers(Tail(numbers))

\* the averageDistance of assignTreeFriendsScores for one point's distances
AverageDistance(distances) ==
  IF Len(distances) > 0 THEN Num(Fraction(SumNumbers(distances), Len(distances)))
  ELSE Infinity

\* the composite score set to 0 whenever the health score is 0
AccessibilityScoreZeroWithoutHealth(tree) ==
  Num(IF calculateHealthScore(tree) = 0 THEN 0
      ELSE normalizeTreeFriendsScore(tree.treeFriendsScore)
             + normalizeAffordabilityScore(tree.affordabilityScore)
             + calculateHealthScore(tree) * 10000)

\* the callback of assignAccessibilityScores: the composite score of a tree
AccessibilityScoreOf(tree) ==
  LET normalizedTreeFriends == normalizeTreeFriendsScore(tree.treeFriendsScore)
      normalizedAffordability == normalizeAffordabilityScore(tree.affordabilityScore)
      healthScore == calculateHealthScore(tree)
      totalScore == normalizedTreeFriends + normalizedAffordability + healthScore * 10000
      isDead == toLowerCase(Trim(tree.status)) = dead
  IN Num(IF isDead THEN 0 ELSE totalScore)

-----------------------------------------------------------------------------
(* Text into lines, a line into fields *)

\* csvData.replace(/^﻿/, '')
StripByteOrderMark(text) ==
  IF text # <<>> /\ Head(text) = ByteOrderMark THEN Tail(text) ELSE text

\* text.split(/\r?\n/): current is the piece being read
RECURSIVE SplitOnLineFeeds(_, _)
SplitOnLineFeeds(text, current) ==
  IF text = <<>> THEN <<current>>
  ELSE IF Head(text) = LineFeed
       THEN <<current>> \o SplitOnLineFeeds(Tail(text), <<>>)
  ELSE IF Head(text) = CarriageReturn /\ Len(text) >= 2 /\ text[2] = LineFeed
       THEN <<current>> \o SplitOnLineFeeds(Tail(Tail(text)), <<>>)
  ELSE SplitOnLineFeeds(Tail(text), Append(current, Head(text)))

\* .filter(Boolean) on strings
FilterNonEmpty(pieces) == SelectSeq(pieces, LAMBDA piece : piece # <<>>)

\* const normalizedData = ...; const lines = ...
SplitIntoLines(text) ==
  FilterNonEmpty(SplitOnLineFeeds(Trim(StripByteOrderMark(text)), <<>>))

DoubleQuote == "\""

Comma == ","

\* parseCsvLine with every comma ending a field and quotes dropped
RECURSIVE ScanIgnoringQuotes(_, _, _, _, _)
ScanIgnoringQuotes(line, i, current, inQuotes, result) ==
  IF i > Len(line) THEN Append(result, current)
  ELSE IF line[i] = DoubleQuote
       THEN ScanIgnoringQuotes(line, i + 1, current, inQuotes, result)
  ELSE IF line[i] = Comma
       THEN ScanIgnoringQuotes(line, i + 1, <<>>, inQuotes, Append(result, current))
  ELSE ScanIgnoringQuotes(line, i + 1, Append(current, line[i]), inQuotes, result)

parseCsvLineIgnoringQuotes(line) == ScanIgnoringQuotes(line, 1, <<>>, FALSE, <<>>)

\* the for loop of parseCsvLine from index i (1-based) and result.push(current)
RECURSIVE ScanLine(_, _, _, _, _)
ScanLine(line, i, current, inQuotes, result) ==
  IF i > Len(line) THEN Append(result, current)
  ELSE IF line[i] = DoubleQuote
       THEN IF inQuotes /\ i + 1 <= Len(line) /\ line[i + 1] = DoubleQuote
            THEN ScanLine(line, i + 2, Append(current, DoubleQuote), inQuotes, result)
            ELSE ScanLine(line, i + 1, current, ~inQuotes, result)
  ELSE IF line[i] = Comma /\ ~inQuotes
       THEN ScanLine(line, i + 1, <<>>, inQuotes, Append(result, current))
  ELSE ScanLine(line, i + 1, Append(current, line[i]), inQuotes, result)

parseCsvLine(line) == ScanLine(line, 1, <<>>, FALSE, <<>>)

-----------------------------------------------------------------------------
(* SpecLines: a text composed of lines joined by one line ending, then     *)
(* split by the parser.                                                    *)

MaxLines == 3

\* what a line of a table holds: no line ending, no white space around it
LineContentTexts == { <<"a">>, <<"b">>, <<"a", ",", "b">> }

LineEndings == { <<LineFeed>>, <<CarriageReturn, LineFeed>>, <<CarriageReturn>> }

RECURSIVE JoinLines(_, _)
JoinLines(contents, ending) ==
  IF contents = <<>> THEN <<>>
  ELSE IF Len(contents) = 1 THEN contents[1]
  ELSE contents[1] \o ending \o JoinLines(Tail(contents), ending)

LineStart ==
  /\ linePc = "compose"
  /\ lineContents = <<>>
  /\ csvData = <<>>
  /\ textLines = <<>>

LineAdd ==
  /\ linePc = "compose"
  /\ Len(lineContents) < MaxLines
  /\ \E content \in LineContentTexts : lineContents' = Append(lineContents, content)
  /\ UNCHANGED <<linePc, csvData, textLines>>
  /\ UNCHANGED <<kdVars, nmVars, rentVars, areaVars, wtVars, treeVars, csvVars,
                 appVars, scoreVars, rowVars, lookupVars>>

\* the file as fetched: an optional marker, the textLines, an optional last ending
LineWrite ==
  /\ linePc = "compose"
  /\ \E ending \in LineEndings, marked \in BOOLEAN, ended \in BOOLEAN :
       csvData' = (IF marked THEN <<ByteOrderMark>> ELSE <<>>)
                    \o JoinLines(lineContents, ending)
                    \o (IF ended THEN ending ELSE <<>>)
  /\ linePc' = "written"
  /\ UNCHANGED <<lineContents, textLines>>
  /\ UNCHANGED <<kdVars, nmVars, rentVars, areaVars, wtVars, treeVars, csvVars,
                 appVars, scoreVars, rowVars, lookupVars>>

LineSplit ==
  /\ linePc = "written"
  /\ textLines' = SplitIntoLines(csvData)
  /\ linePc' = "split"
  /\ UNCHANGED <<lineContents, csvData>>
  /\ UNCHANGED <<kdVars, nmVars, rentVars, areaVars, wtVars, treeVars, csvVars,
                 appVars, scoreVars, rowVars, lookupVars>>

NextLines == LineAdd \/ LineWrite \/ LineSplit

\* C13: whichever line ending joins the lines of the text (LF, CRLF or CR
\* alone), the parser's lines are the lines the text was composed of.
LinesWhateverTheEnding ==
  linePc = "split" => textLines = lineContents

-----------------------------------------------------------------------------
(* SpecCsv: parseCsvLine on lines of letters, commas and double quotes.     *)

MaxLineLen == 5

CsvAlphabet == { "a", Comma, DoubleQuote }

CsvStart ==
  /\ csvPc = "input"
  /\ csvLine = <<>>
  /\ csvFields = <<>>

CsvType ==
  /\ csvPc = "input"
  /\ Len(csvLine) < MaxLineLen
  /\ \E c \in CsvAlphabet : csvLine' = Append(csvLine, c)
  /\ UNCHANGED <<csvPc, csvFields>>
  /\ UNCHANGED <<kdVars, nmVars, rentVars, areaVars, wtVars, treeVars, lineVars,
                 appVars, scoreVars, rowVars, lookupVars>>

CsvParse ==
  /\ csvPc = "input"
  /\ csvFields' = parseCsvLine(csvLine)
  /\ csvPc' = "parsed"
  /\ UNCHANGED csvLine
  /\ UNCHANGED <<kdVars, nmVars, rentVars, areaVars, wtVars, treeVars, lineVars,
                 appVars, scoreVars, rowVars, lookupVars>>

NextCsv == CsvType \/ CsvParse

RECURSIVE Flatten(_)
Flatten(fields) ==
  IF fields = <<>> THEN <<>> ELSE Head(fields) \o Flatten(Tail(fields))

CountOf(c, text) == Cardinality({ i \in 1..Len(text) : text[i] = c })

\* quoted mode at position i: an odd number of double quotes before it
QuotedAt(line, i) == CountOf(DoubleQuote, SubSeq(line, 1, i - 1)) % 2 = 1

CommasOutsideQuotes(line) ==
  Cardinality({ i \in 1..Len(line) : line[i] = Comma /\ ~QuotedAt(line, i) })

CommasInsideQuotes(line) ==
  Cardinality({ i \in 1..Len(line) : line[i] = Comma /\ QuotedAt(line, i) })

\* the length of the run of double quotes that starts at position i
RECURSIVE QuoteRun(_, _)
QuoteRun(line, i) ==
  IF i > Len(line) \/ line[i] # DoubleQuote THEN 0 ELSE 1 + QuoteRun(line, i + 1)

\* literal quotes of a run of double quotes: the first of a run met outside
\* quoted mode opens it, then every two give one literal quote
LiteralQuotesOfRun(line, i) ==
  (QuoteRun(line, i) - (IF QuotedAt(line, i) THEN 0 ELSE 1)) \div 2

RunStarts(line) ==
  { i \in 1..Len(line) :
      line[i] = DoubleQuote /\ (i = 1 \/ line[i - 1] # DoubleQuote) }

RECURSIVE SumOverRuns(_, _)
SumOverRuns(line, starts) ==
  IF starts = {} THEN 0
  ELSE LET i == CHOOSE j \in starts : TRUE
       IN LiteralQuotesOfRun(line, i) + SumOverRuns(line, starts \ {i})

LiteralQuotes(line) == SumOverRuns(line, RunStarts(line))

\* C14: parseCsvLine returns 1 + (commas outside quoted mode) fields; the
\* commas inside quoted mode are kept in the fields; of the double quotes
\* only the doubled ones of quoted mode appear, one for two; every other
\* character is kept in order; the last field is there even for the empty
\* line and is empty after a closing comma.
FieldsOfLine ==
  csvPc = "parsed" =>
    /\ Len(csvFields) = 1 + CommasOutsideQuotes(csvLine)
    /\ CountOf(Comma, Flatten(csvFields)) = CommasInsideQuotes(csvLine)
    /\ CountOf(DoubleQuote, Flatten(csvFields)) = LiteralQuotes(csvLine)
    /\ SelectSeq(Flatten(csvFields), LAMBDA c : c \notin {Comma, DoubleQuote})
         = SelectSeq(csvLine, LAMBDA c : c \notin {Comma, DoubleQuote})
    /\ csvLine = <<>> => csvFields = << <<>> >>
    /\ (/\ csvLine # <<>>
        /\ csvLine[Len(csvLine)] = Comma
        /\ ~QuotedAt(csvLine, Len(csvLine))) => csvFields[Len(csvFields)] = <<>>

\* the line ",""" in quotes has been parsed into one field: a comma and a quote
QuotedCommaAndQuoteKept ==
  /\ csvPc = "parsed"
  /\ csvLine = <<DoubleQuote, Comma, DoubleQuote, DoubleQuote, DoubleQuote>>
  /\ csvFields = << <<Comma, DoubleQuote>> >>

-----------------------------------------------------------------------------
(* SpecKd: buildKdTree and findKNearestNeighborDistances on point lists    *)
(* over the coarse grid.                                                   *)

MaxPoints == 7

\* <<latitude, longitude>> of the points offered to the index
KdCoords == {<<0, 0>>, <<10000, 0>>, <<10000, 10000>>}

KdStart ==
  /\ kdPc = "input"
  /\ points = <<>>
  /\ kdTreeRoot = null
  /\ kdTarget = -1
  /\ neighborDistances = <<>>

\* one more tree in the list: points = trees.map((tree, index) => ...)
KdAddPoint ==
  /\ kdPc = "input"
  /\ Len(points) < MaxPoints
  /\ \E c \in KdCoords :
       points' = Append(points, [latitude |-> c[1], longitude |-> c[2],
                                 index |-> Len(points)])
  /\ UNCHANGED <<kdPc, kdTreeRoot, kdTarget, neighborDistances>>
  /\ UNCHANGED <<nmVars, rentVars, areaVars, wtVars, treeVars, lineVars, csvVars, appVars,
              scoreVars, rowVars, lookupVars>>

\* const kdTreeRoot = buildKdTree(points)
KdBuild ==
  /\ kdPc = "input"
  /\ Len(points) > 0
  /\ kdTreeRoot' = buildKdTree(points, 0)
  /\ kdPc' = "built"
  /\ UNCHANGED <<points, kdTarget, neighborDistances>>
  /\ UNCHANGED <<nmVars, rentVars, areaVars, wtVars, treeVars, lineVars, csvVars, appVars,
              scoreVars, rowVars, lookupVars>>

\* findKNearestNeighborDistances(kdTreeRoot, point, neighborCount)
KdQuery ==
  /\ kdPc = "built"
  /\ \E i \in 1..Len(points) :
       /\ kdTarget' = points[i].index
       /\ neighborDistances' =
            findKNearestNeighborDistances(kdTreeRoot, points[i], neighborCount)
  /\ UNCHANGED <<kdPc, points, kdTreeRoot>>
  /\ UNCHANGED <<nmVars, rentVars, areaVars, wtVars, treeVars, lineVars, csvVars, appVars,
              scoreVars, rowVars, lookupVars>>

NextKd == KdAddPoint \/ KdBuild \/ KdQuery

\* The reference: the k smallest distances from the target to every other
\* point, by a scan over the whole list.
BruteForceDistances(pts, targetIndex, k) ==
  LET target == pts[targetIndex + 1]
      others == SelectSeq(pts, LAMBDA p : p.index # targetIndex)
      all == [i \in 1..Len(others) |->
                getDistanceInMeters(target.latitude, target.longitude,
                                    others[i].latitude, others[i].longitude).v]
      sorted == SortNumbers(all)
  IN SubSeq(sorted, 1, Min(k, Len(sorted)))

IsSortedSeq(s) == \A i \in 1..(Len(s) - 1) : s[i] <= s[i + 1]

\* C1: for every point of the indexed set, the k-d tree search returns a
\* non-decreasing list equal to the k smallest true distances to all the
\* other points (two sorted lists are equal exactly when they are equal as
\* multisets).
KdQueryMatchesBruteForce ==
  (kdPc = "built" /\ kdTarget >= 0) =>
    /\ IsSortedSeq(neighborDistances)
    /\ neighborDistances = BruteForceDistances(points, kdTarget, neighborCount)

\* the points stored in a subtree
RECURSIVE PointsOf(_)
PointsOf(node) ==
  IF node = null THEN {}
  ELSE {node.point} \cup PointsOf(node.left) \cup PointsOf(node.right)

\* the nodes of a subtree, each with its depth below the root
RECURSIVE NodesFrom(_, _)
NodesFrom(node, depth) ==
  IF node = null THEN {}
  ELSE {[node |-> node, depth |-> depth]}
         \cup NodesFrom(node.left, depth + 1) \cup NodesFrom(node.right, depth + 1)

\* C18: in the tree buildKdTree returns, a node at even depth splits on
\* latitude (axis 0) and a node at odd depth on longitude (axis 1); every
\* point of its left subtree has a coordinate on that axis at most the
\* node's, every point of its right subtree at least the node's.
KdTreeOrdered ==
  kdPc = "built" =>
    \A n \in NodesFrom(kdTreeRoot, 0) :
      /\ n.node.axis = n.depth % 2
      /\ \A p \in PointsOf(n.node.left) :
           AxisValue(p, n.node.axis) <= AxisValue(n.node.point, n.node.axis)
      /\ \A p \in PointsOf(n.node.right) :
           AxisValue(p, n.node.axis) >= AxisValue(n.node.point, n.node.axis)

\* a tree whose root has points of its own latitude in both subtrees, and a
\* node under it with a point of its own longitude in its left subtree
KdTreeWithTiesOnBothSides ==
  /\ kdPc = "built"
  /\ \E p \in PointsOf(kdTreeRoot.left) : p.latitude = kdTreeRoot.point.latitude
  /\ \E p \in PointsOf(kdTreeRoot.right) : p.latitude = kdTreeRoot.point.latitude
  /\ \E p \in PointsOf(kdTreeRoot.left) : p.latitude < kdTreeRoot.point.latitude
  /\ \E n \in NodesFrom(kdTreeRoot, 0) :
       /\ n.depth = 1
       /\ \E p \in PointsOf(n.node.left) : p.longitude = n.node.point.longitude

\* the number of edges on the longest path from a node down to a leaf
RECURSIVE DepthOf(_)
DepthOf(node) ==
  IF node = null THEN -1
  ELSE 1 + Max(DepthOf(node.left), DepthOf(node.right))

RECURSIVE FloorLog2(_)
FloorLog2(n) == IF n <= 1 THEN 0 ELSE 1 + FloorLog2(n \div 2)

RECURSIVE CeilLog2(_)
CeilLog2(n) == IF n <= 1 THEN 0 ELSE 1 + CeilLog2((n + 1) \div 2)

\* the points of a subtree from left to right
RECURSIVE PointSeqOf(_)
PointSeqOf(node) ==
  IF node = null THEN <<>>
  ELSE PointSeqOf(node.left) \o <<node.point>> \o PointSeqOf(node.right)

\* the coordinates of the points of a subtree on an axis, in ascending order
AxisValuesOf(node, axis) ==
  LET pts == PointSeqOf(node)
  IN SortNumbers([i \in 1..Len(pts) |-> AxisValue(pts[i], axis)])

\* every node holds the point at position floor(count/2) of its points
\* sorted on its axis, count being the points of its subtree; its left
\* subtree holds the floor(count/2) points before it
MedianAtEveryNode ==
  \A n \in NodesFrom(kdTreeRoot, 0) :
    LET count == Cardinality(PointsOf(n.node))
    IN /\ Cardinality(PointsOf(n.node.left)) = count \div 2
       /\ Cardinality(PointsOf(n.node.right)) = count - 1 - count \div 2
       /\ AxisValue(n.node.point, n.node.axis)
            = AxisValuesOf(n.node, n.node.axis)[count \div 2 + 1]

\* C19 as stated: the tree of N points is built on medians and its depth,
\* the edges from the root to the deepest node, is the ceiling of log2 N.
KdDepthIsCeilLog2 ==
  kdPc = "built" =>
    /\ MedianAtEveryNode
    /\ DepthOf(kdTreeRoot) = CeilLog2(Len(points))

\* C19, amended: the tree of N points is built on medians, the two subtrees
\* of a node differ by at most one point, and its depth is the floor of
\* log2 N (so its levels are the ceiling of log2 (N + 1)).
KdDepthIsFloorLog2 ==
  kdPc = "built" =>
    /\ MedianAtEveryNode
    /\ \A n \in NodesFrom(kdTreeRoot, 0) :
         Cardinality(PointsOf(n.node.left)) - Cardinality(PointsOf(n.node.right))
           \in {0, 1}
    /\ DepthOf(kdTreeRoot) = FloorLog2(Len(points))
    /\ DepthOf(kdTreeRoot) + 1 = CeilLog2(Len(points) + 1)

\* a tree of three points, all at one place: depth 1, below the ceiling of
\* log2 3
ThreePointsDepthOne ==
  /\ kdPc = "built"
  /\ Len(points) = 3
  /\ \A i \in 1..3 : points[i].latitude = 0 /\ points[i].longitude = 0
  /\ DepthOf(kdTreeRoot) = 1
  /\ CeilLog2(Len(points)) = 2

\* the nodes the search for a target always visits: the root, then the
\* child on the target's side of each node's split
RECURSIVE VisitedOnDescent(_, _)
VisitedOnDescent(node, target) ==
  IF node = null THEN {}
  ELSE {node} \cup
       VisitedOnDescent(IF AxisValue(target, node.axis) < AxisValue(node.point, node.axis)
                        THEN node.left ELSE node.right, target)

\* C20: at every node the search visits on its way down, the axis distance
\* from the target to the node's split is at most the distance from the
\* target to any point of the subtree on the other side of the split.
AxisDistanceIsLowerBound ==
  (kdPc = "built" /\ kdTarget >= 0) =>
    LET target == points[kdTarget + 1]
    IN \A node \in VisitedOnDescent(kdTreeRoot, target) :
         LET targetValue == AxisValue(target, node.axis)
             nodeValue == AxisValue(node.point, node.axis)
             farNode == IF targetValue < nodeValue THEN node.right ELSE node.left
             axisDistanceMeters ==
               getAxisDistanceMeters(Abs(targetValue - nodeValue), node.axis,
                                     target.latitude)
         IN \A p \in PointsOf(farNode) :
              axisDistanceMeters <= getDistanceInMeters(target.latitude, target.longitude,
                                                        p.latitude, p.longitude).v

\* the points other than the target that lie where the target lies
CoincidentWithTarget ==
  { i \in 1..Len(points) :
      /\ points[i].index # kdTarget
      /\ points[i].latitude = points[kdTarget + 1].latitude
      /\ points[i].longitude = points[kdTarget + 1].longitude }

\* C26: the search leaves out the target's own entry and no other: the
\* result has min(k, N - 1) distances for N points, and every other point
\* lying where the target lies is counted, at distance 0, up to k of them.
OnlyTargetLeftOut ==
  (kdPc = "built" /\ kdTarget >= 0) =>
    /\ Len(neighborDistances) = Min(neighborCount, Len(points) - 1)
    /\ Cardinality({j \in 1..Len(neighborDistances) : neighborDistances[j] = 0})
         = Min(neighborCount, Cardinality(CoincidentWithTarget))

\* three points, two of them where the target lies: distances 0, 0
CoincidentPointsCounted ==
  /\ kdPc = "built"
  /\ kdTarget >= 0
  /\ Len(points) = 3
  /\ Cardinality(CoincidentWithTarget) = 2
  /\ neighborDistances = <<0, 0>>

-----------------------------------------------------------------------------
(* SpecNames: normalizeNeighborhoodName and normalizeRentKey applied once   *)
(* and twice to a string.                                                  *)

MaxNameLen == 3

NameAlphabet == {" ", "\t", "a", "U"}

\* names of the data, of the alias table and of Object.prototype, some
\* with the spacing and the capitals a table may give them
KnownNames ==
  { Unknown, GramecyPark, GramercyPark, StuyvesantTown, StuyvesantTownPcv,
    <<"u", "n", "k", "n", "o", "w", "n">>,
    <<" ", "G", "r", "a", "m", "e", "c", "y", " ", "	", " ", "P", "a", "r", "k", " ">>,
    <<"S", "T", "U", "Y", "V", "E", "S", "A", "N", "T", " ", " ", "T", "O", "W", "N">>,
    <<"c", "o", "n", "s", "t", "r", "u", "c", "t", "o", "r">>,
    <<" ", "C", "o", "n", "s", "t", "r", "u", "c", "t", "o", "r">>,
    <<"_", "_", "p", "r", "o", "t", "o", "_", "_">>,
    <<"t", "o", "S", "t", "r", "i", "n", "g">> }

NmStart ==
  /\ nmPc = "input"
  /\ nmValue = <<>>
  /\ nmOnce = <<>>
  /\ nmTwice = <<>>

\* the text grows by one character
NmType ==
  /\ nmPc = "input"
  /\ Len(nmValue) < MaxNameLen
  /\ \E c \in NameAlphabet : nmValue' = Append(nmValue, c)
  /\ UNCHANGED <<nmPc, nmOnce, nmTwice>>
  /\ UNCHANGED <<kdVars, rentVars, areaVars, wtVars, treeVars, lineVars, csvVars, appVars,
              scoreVars, rowVars, lookupVars>>

\* the text is one of the known names
NmPaste ==
  /\ nmPc = "input"
  /\ nmValue = <<>>
  /\ \E name \in KnownNames : nmValue' = name
  /\ UNCHANGED <<nmPc, nmOnce, nmTwice>>
  /\ UNCHANGED <<kdVars, rentVars, areaVars, wtVars, treeVars, lineVars, csvVars, appVars,
              scoreVars, rowVars, lookupVars>>

NmNormalizeName ==
  /\ nmPc = "input"
  /\ nmOnce' = normalizeNeighborhoodName(nmValue)
  /\ nmTwice' = normalizeNeighborhoodName(normalizeNeighborhoodName(nmValue))
  /\ nmPc' = "name"
  /\ UNCHANGED <<nmValue>>
  /\ UNCHANGED <<kdVars, rentVars, areaVars, wtVars, treeVars, lineVars, csvVars, appVars,
              scoreVars, rowVars, lookupVars>>

NmNormalizeKey ==
  /\ nmPc = "input"
  /\ nmOnce' = normalizeRentKey(nmValue)
  /\ nmTwice' = normalizeRentKey(normalizeRentKey(nmValue))
  /\ nmPc' = "key"
  /\ UNCHANGED <<nmValue>>
  /\ UNCHANGED <<kdVars, rentVars, areaVars, wtVars, treeVars, lineVars, csvVars, appVars,
              scoreVars, rowVars, lookupVars>>

NextNames == NmType \/ NmPaste \/ NmNormalizeName \/ NmNormalizeKey

\* C8: normalizing a normalized area name or rent key changes nothing, for
\* every string, the empty one, "Unknown" and the alias entries included.
NormalizationIdempotent ==
  nmPc \in {"name", "key"} => nmTwice = nmOnce

\* The half of C8 the code keeps: normalizeNeighborhoodName is idempotent.
NameNormalizationIdempotent ==
  nmPc = "name" => nmTwice = nmOnce

-----------------------------------------------------------------------------
(* SpecRent: parseRentData, one line of the rent table at a time.          *)

MaxRentRows == 3

\* header rows: the data's, one in other capitals and order with a column
\* more, and one without a rent column
RentHeaderRows ==
  { <<<<"a", "r", "e", "a", "N", "a", "m", "e">>, <<"r", "e", "n", "t">>>>,
    <<<<"B", "o", "r", "o", "u", "g", "h">>, <<"R", "E", "N", "T">>, <<"A", "r", "e", "a", "N", "a", "m", "e">>>>,
    <<<<"a", "r", "e", "a", "N", "a", "m", "e">>, <<"p", "r", "i", "c", "e">>>> }

RentNameTexts == {<<>>, <<"A">>, <<" ", "b">>, Unknown}

RentValueTexts ==
  { <<>>, <<"3", "0", "0", "0">>, <<"-", "5">>, <<" ", "4", "2", " ">>, <<"1", "2", "a", "b", "c">>, InfinityText, undefined }

RentStart ==
  /\ rentPc = "header"
  /\ rentIndices = <<-1, -1>>
  /\ rentRowsRead = 0
  /\ rentLookup = EmptyMap

\* the header row is read: both columns are found, or the lookup stays empty
RentReadHeader ==
  /\ rentPc = "header"
  /\ \E headers \in RentHeaderRows :
       LET nameIndex == FindHeaderIndex(headers, AreaNameHeader)
           rentIndex == FindHeaderIndex(headers, RentHeader)
       IN /\ rentIndices' = <<nameIndex, rentIndex>>
          /\ rentPc' = IF nameIndex = -1 \/ rentIndex = -1 THEN "done" ELSE "rows"
  /\ UNCHANGED <<rentRowsRead, rentLookup>>
  /\ UNCHANGED <<kdVars, nmVars, areaVars, wtVars, treeVars, lineVars, csvVars, appVars,
              scoreVars, rowVars, lookupVars>>

\* one data line: its name and rent fields sit at the header's indices
RentParseRow ==
  /\ rentPc = "rows"
  /\ rentRowsRead < MaxRentRows
  /\ \E name \in RentNameTexts, rent \in RentValueTexts :
       LET width == Max(rentIndices[1], rentIndices[2]) + 1
           values == [i \in 1..width |->
                        IF i = rentIndices[1] + 1 THEN name
                        ELSE IF i = rentIndices[2] + 1 THEN rent
                        ELSE <<"x">>]
           \* a missing trailing field: the line stops before the rent column
           line == IF rent = undefined THEN SubSeq(values, 1, rentIndices[2]) ELSE values
       IN rentLookup' = ParseRentRow(rentLookup, line, rentIndices[1], rentIndices[2])
  /\ rentRowsRead' = rentRowsRead + 1
  /\ UNCHANGED <<rentPc, rentIndices>>
  /\ UNCHANGED <<kdVars, nmVars, areaVars, wtVars, treeVars, lineVars, csvVars, appVars,
              scoreVars, rowVars, lookupVars>>

\* no line is left: parseRentData returns the lookup
RentFinish ==
  /\ rentPc = "rows"
  /\ rentPc' = "done"
  /\ UNCHANGED <<rentIndices, rentRowsRead, rentLookup>>
  /\ UNCHANGED <<kdVars, nmVars, areaVars, wtVars, treeVars, lineVars, csvVars, appVars,
              scoreVars, rowVars, lookupVars>>

NextRent == RentReadHeader \/ RentParseRow \/ RentFinish

\* C10 as stated: every rent stored in the lookup is a finite number that
\* is not negative.
RentValuesNonNegative ==
  \A key \in DOMAIN rentLookup :
    IsFinite(rentLookup[key]) /\ rentLookup[key].v >= 0

\* C10 as amended: every rent stored in the lookup is a finite number (NaN
\* and the infinities are discarded; a negative rent is stored as written).
RentValuesFinite ==
  \A key \in DOMAIN rentLookup : IsFinite(rentLookup[key])

\* a table read to its end whose lookup holds a negative rent
RentNegativeStored ==
  /\ rentPc = "done"
  /\ rentRowsRead >= 2
  /\ \E key \in DOMAIN rentLookup : rentLookup[key] = Num(-5)

-----------------------------------------------------------------------------
(* SpecArea: the rent lookup of a table, a list of areas, and the nearest  *)
(* areas, estimate and affordability score of points of the fine grid.     *)

MaxAreas == 4

MaxLocated == 2

AreaA == <<"A">>

AreaB == <<"B">>

AreaC == <<"C">>

\* the parsed lines of two rent tables; neither lists area C
RentTables ==
  { << <<<<"a", "r", "e", "a", "N", "a", "m", "e">>, <<"r", "e", "n", "t">>>>, <<AreaA, <<"1", "5", "0", "0">>>>, <<AreaB, <<"6", "0", "0", "0">>>> >>,
    << <<<<"a", "r", "e", "a", "N", "a", "m", "e">>, <<"r", "e", "n", "t">>>>, <<AreaA, <<"3", "0", "0", "0">>>>, <<AreaB, <<"6", "0", "0", "0">>>> >> }

AreaNames == {AreaA, AreaB, AreaC}

\* <<latitude, longitude>> of areas and of located points
AreaCoords == {<<0, 0>>, <<1, 1>>}

PointCoords == {<<0, 0>>, <<0, 1>>}

AreaStart ==
  /\ areaPc = "rents"
  /\ neighborhoods = <<>>
  /\ located = <<>>

\* const rentLookup = parseRentData(rentDataCsv)
AreaLoadRents ==
  /\ areaPc = "rents"
  /\ \E table \in RentTables : rentLookup' = parseRentData(table)
  /\ areaPc' = "areas"
  /\ UNCHANGED <<neighborhoods, located, rentPc, rentIndices, rentRowsRead>>
  /\ UNCHANGED <<kdVars, nmVars, wtVars, treeVars, lineVars, csvVars, appVars,
              scoreVars, rowVars, lookupVars>>

\* one more row of parseNeighborhoodData with finite coordinates
AreaAddNeighborhood ==
  /\ areaPc = "areas"
  /\ located = <<>>
  /\ Len(neighborhoods) < MaxAreas
  /\ \E name \in AreaNames, c \in AreaCoords :
       neighborhoods' = Append(neighborhoods,
                               [name |-> normalizeNeighborhoodName(name),
                                latitude |-> c[1], longitude |-> c[2]])
  /\ UNCHANGED <<areaPc, located>>
  /\ UNCHANGED <<kdVars, nmVars, rentVars, wtVars, treeVars, lineVars, csvVars, appVars,
              scoreVars, rowVars, lookupVars>>

\* lines 241-250 of parseTreeData for a point at <<latitude, longitude>>
LocatedAt(latitude, longitude) ==
  LET nearestMatches ==
        getClosestNeighborhoodMatches(latitude, longitude, neighborhoods, rentLookup,
                                      NEAREST_NEIGHBOR_COUNT)
      expectedRent == calculateExpectedRent(nearestMatches)
  IN [latitude |-> latitude, longitude |-> longitude,
      nearestMatches |-> nearestMatches,
      neighborhood |-> closestNeighborhood(nearestMatches),
      weights |-> InterpolationWeights(nearestMatches),
      expectedRent |-> expectedRent,
      affordabilityScore |-> AffordabilityOf(expectedRent)]

AreaLocate ==
  /\ areaPc = "areas"
  /\ Len(located) < MaxLocated
  /\ \E c \in PointCoords : located' = Append(located, LocatedAt(c[1], c[2]))
  /\ UNCHANGED <<areaPc, neighborhoods>>
  /\ UNCHANGED <<kdVars, nmVars, rentVars, wtVars, treeVars, lineVars, csvVars, appVars,
              scoreVars, rowVars, lookupVars>>

NextArea == AreaLoadRents \/ AreaAddNeighborhood \/ AreaLocate

\* the areas at a finite distance of located point i
AreasInReach(i) ==
  { j \in 1..Len(neighborhoods) :
      IsFinite(getDistanceInMeters(located[i].latitude, located[i].longitude,
                                   neighborhoods[j].latitude,
                                   neighborhoods[j].longitude)) }

\* the estimates of the located points that are numbers
Estimated == {i \in 1..Len(located) : located[i].expectedRent # null}

\* C4: the estimate of a located point is null exactly when fewer than 3
\* areas are kept or a kept area has no rent in the lookup; the kept areas
\* are 3 or all the areas at a finite distance, so with two areas the
\* estimate is null.
EstimateNullIffIncomplete ==
  \A i \in 1..Len(located) :
    LET kept == located[i].nearestMatches
        unknown == {j \in 1..Len(kept) : normalizeRentKey(kept[j].name) \notin DOMAIN rentLookup}
    IN /\ Len(kept) = Min(NEAREST_NEIGHBOR_COUNT, Cardinality(AreasInReach(i)))
       /\ (located[i].expectedRent = null) <=> (Len(kept) < 3 \/ unknown # {})
       /\ Len(neighborhoods) <= 2 => located[i].expectedRent = null

\* two areas, both with a rent in the lookup, and a point located: no estimate
TwoKnownAreasNoEstimate ==
  /\ Len(neighborhoods) = 2
  /\ \E i \in 1..Len(located) :
       /\ located[i].expectedRent = null
       /\ \A j \in 1..2 : located[i].nearestMatches[j].rent # null

\* C7 as stated: over all the estimates the interpolation produces, a
\* smaller estimate never has the smaller score, and scores are in [0, 10].
ScoreNonIncreasingInEstimate ==
  \A i \in Estimated, j \in Estimated :
    /\ located[i].affordabilityScore.v \in 0..10000
    /\ FractionLess(located[i].expectedRent.v, located[j].expectedRent.v)
         => located[i].affordabilityScore.v >= located[j].affordabilityScore.v

\* C7, amended: over the positive estimates a smaller estimate never has the
\* smaller score; every score is in [0, 10]; an estimate that is zero or
\* negative (negative weights) scores 0.
ScoreNonIncreasingInPositiveEstimate ==
  \A i \in Estimated, j \in Estimated :
    /\ located[i].affordabilityScore.v \in 0..10000
    /\ located[i].expectedRent.v.n <= 0 => located[i].affordabilityScore.v = 0
    /\ (located[i].expectedRent.v.n > 0
        /\ FractionLess(located[i].expectedRent.v, located[j].expectedRent.v))
         => located[i].affordabilityScore.v >= located[j].affordabilityScore.v

\* two positive estimates, the smaller with the strictly greater score below
\* the clamp, and a negative estimate scoring 0
PositiveEstimatesOrdered ==
  \E i \in Estimated, j \in Estimated :
    /\ located[i].expectedRent.v.n > 0
    /\ FractionLess(located[i].expectedRent.v, located[j].expectedRent.v)
    /\ located[i].affordabilityScore.v < 10000
    /\ located[i].affordabilityScore.v > located[j].affordabilityScore.v

\* C22: for a point with three kept matches of known rents r1, r2, r3 at
\* distances d1 <= d2 <= d3, the estimate is (r1 + r2 + r3) / 3 when
\* d1 + d2 + d3 = 0; otherwise it is w1 r1 + w2 r2 + w3 r3 with
\* wi = (d1 + d2 + d3 - 2 di) / (d1 + d2 + d3), none of them clamped, so
\* that w3 is negative when d3 > d1 + d2.
EstimateIsUnclampedWeightedSum ==
  \A i \in Estimated :
    LET kept == located[i].nearestMatches
        d1 == Max(kept[1].distance, 0)
        d2 == Max(kept[2].distance, 0)
        d3 == Max(kept[3].distance, 0)
        total == d1 + d2 + d3
        estimate == located[i].expectedRent.v
    IN /\ d1 <= d2 /\ d2 <= d3
       /\ total = 0 =>
            estimate.n * 3 = estimate.d * (kept[1].rent.v + kept[2].rent.v + kept[3].rent.v)
       /\ total # 0 =>
            /\ estimate.n * total
                 = estimate.d * ((total - 2 * d1) * kept[1].rent.v
                                   + (total - 2 * d2) * kept[2].rent.v
                                   + (total - 2 * d3) * kept[3].rent.v)
            /\ located[i].weights[3].n = d1 + d2 - d3
            /\ located[i].weights[3].d = total
            /\ d3 > d1 + d2 => located[i].weights[3].n < 0

\* a point with d3 > d1 + d2 and a negative third weight whose estimate is
\* negative: below each of the three rents
NegativeWeightEstimateBelowRents ==
  \E i \in Estimated :
    LET kept == located[i].nearestMatches
    IN /\ kept[3].distance > kept[1].distance + kept[2].distance
       /\ located[i].weights[3].n < 0
       /\ located[i].expectedRent.v.d > 0
       /\ located[i].expectedRent.v.n < 0
       /\ \A j \in 1..3 : kept[j].rent.v > 0

-----------------------------------------------------------------------------
(* SpecResolve: the area a point is named after, over area lists longer    *)
(* than the matches kept and points out to a latitude of 1e308.            *)

ResolveAreaNames == {AreaA, AreaB}

\* the last is a point whose latitude the table gives as 1e308
ResolvePointCoords == PointCoords \cup {<<OverflowDegrees, 0>>}

\* one more row of parseNeighborhoodData with finite coordinates
ResolveAddNeighborhood ==
  /\ located = <<>>
  /\ Len(neighborhoods) < MaxAreas
  /\ \E name \in ResolveAreaNames, c \in AreaCoords :
       neighborhoods' = Append(neighborhoods,
                               [name |-> normalizeNeighborhoodName(name),
                                latitude |-> c[1], longitude |-> c[2]])
  /\ UNCHANGED <<areaPc, located>>
  /\ UNCHANGED <<kdVars, nmVars, rentVars, wtVars, treeVars, lineVars, csvVars, appVars,
              scoreVars, rowVars, lookupVars>>

ResolveLocate ==
  /\ Len(located) < MaxLocated
  /\ \E c \in ResolvePointCoords : located' = Append(located, LocatedAt(c[1], c[2]))
  /\ UNCHANGED <<areaPc, neighborhoods>>
  /\ UNCHANGED <<kdVars, nmVars, rentVars, wtVars, treeVars, lineVars, csvVars, appVars,
              scoreVars, rowVars, lookupVars>>

NextResolve == ResolveAddNeighborhood \/ ResolveLocate

\* C15: the area name of a located point is the name of the first kept
\* match, which no area at a finite distance is nearer than, the kept
\* matches being in ascending order of distance; it is "Unknown" exactly
\* when there is no area or no area is at a finite distance.
NearestKeptNamesThePoint ==
  \A i \in 1..Len(located) :
    LET kept == located[i].nearestMatches
    IN /\ \A j \in 1..(Len(kept) - 1) : kept[j].distance <= kept[j + 1].distance
       /\ kept = <<>> <=> AreasInReach(i) = {}
       /\ kept = <<>> => located[i].neighborhood = Unknown
       /\ kept # <<>> =>
            /\ located[i].neighborhood = kept[1].name
            /\ \E j \in AreasInReach(i) :
                 /\ neighborhoods[j].name = kept[1].name
                 /\ getDistanceInMeters(located[i].latitude, located[i].longitude,
                                        neighborhoods[j].latitude,
                                        neighborhoods[j].longitude).v = kept[1].distance
            /\ \A j \in AreasInReach(i) :
                 kept[1].distance <=
                   getDistanceInMeters(located[i].latitude, located[i].longitude,
                                       neighborhoods[j].latitude,
                                       neighborhoods[j].longitude).v

\* among four areas, a point named after area B, its nearest and the last of
\* the list, and a point no area is at a finite distance of, named "Unknown"
NamedAfterNearestOrUnknown ==
  /\ Len(neighborhoods) = 4
  /\ Len(located) = 2
  /\ neighborhoods[4].name = AreaB
  /\ located[1].neighborhood = AreaB
  /\ located[1].nearestMatches[3].name = AreaA
  /\ located[1].nearestMatches[3].distance > located[1].nearestMatches[1].distance
  /\ located[2].nearestMatches = <<>>
  /\ located[2].neighborhood = Unknown

\* the areas at a finite distance of located point i as matches, in the
\* order of the area list
MatchesInReach(i) ==
  LET reach == SelectSeq([j \in 1..Len(neighborhoods) |-> j],
                         LAMBDA j : j \in AreasInReach(i))
  IN [n \in 1..Len(reach) |->
        [name |-> neighborhoods[reach[n]].name,
         distance |-> getDistanceInMeters(located[i].latitude, located[i].longitude,
                                          neighborhoods[reach[n]].latitude,
                                          neighborhoods[reach[n]].longitude).v,
         rent |-> getNeighborhoodRent(neighborhoods[reach[n]].name, rentLookup)]]

\* C21: the matches kept for a point are min(3, areas at a finite distance)
\* many, in non-decreasing order of distance; every area strictly nearer
\* than the farthest kept match is kept; and among areas as far as the
\* farthest kept match those earlier in the list are the ones kept: the
\* kept matches are the first of the areas ordered by distance, ties in
\* list order, so a later area tying with the farthest does not displace it.
KeptAreTheNearestTiesInListOrder ==
  \A i \in 1..Len(located) :
    LET kept == located[i].nearestMatches
        all == MatchesInReach(i)
        count == Min(NEAREST_NEIGHBOR_COUNT, Len(all))
    IN /\ Len(kept) = count
       /\ \A j \in 1..(Len(kept) - 1) : kept[j].distance <= kept[j + 1].distance
       /\ kept # <<>> =>
            Cardinality({j \in 1..Len(all) : all[j].distance < kept[Len(kept)].distance})
              = Cardinality({j \in 1..Len(kept) :
                               kept[j].distance < kept[Len(kept)].distance})
       /\ kept = SubSeq(SortMatches(all), 1, count)

\* four areas, the first three named A at one place and the last named B at
\* another: for a point as far from all four the three A are kept, B tying
\* with the farthest; for a point at B's place B replaces an A and is first
TieKeptAndNearerReplaces ==
  /\ Len(neighborhoods) = 4
  /\ Len(located) = 2
  /\ \A j \in 1..3 : neighborhoods[j].name = AreaA
  /\ neighborhoods[4].name = AreaB
  /\ \A i \in 1..2 : Len(located[i].nearestMatches) = 3 /\ Len(MatchesInReach(i)) = 4
  /\ \A j \in 1..3 : located[1].nearestMatches[j].name = AreaA
  /\ MatchesInReach(1)[4].distance = located[1].nearestMatches[3].distance
  /\ located[2].nearestMatches[1].name = AreaB
  /\ located[2].nearestMatches[1].distance < located[2].nearestMatches[2].distance

-----------------------------------------------------------------------------
(* SpecWeights: calculateExpectedRent's weights for three distances, the   *)
(* divisions carried out in binary64.                                      *)

MaxDistance == 5

WtStart ==
  /\ wtPc = "distances"
  /\ wtDistances = <<>>
  /\ wtWeights = <<>>
  /\ wtExactSum = null
  /\ wtDoubleSum = null

\* the next match of the three, at a distance in whole metres
WtAddDistance ==
  /\ wtPc = "distances"
  /\ Len(wtDistances) < 3
  /\ \E distance \in 0..MaxDistance : wtDistances' = Append(wtDistances, distance)
  /\ UNCHANGED <<wtPc, wtWeights, wtExactSum, wtDoubleSum>>
  /\ UNCHANGED <<kdVars, nmVars, rentVars, areaVars, treeVars, lineVars, csvVars, appVars,
              scoreVars, rowVars, lookupVars>>

\* lines 382-393 of calculateExpectedRent on three matches with known rents
WtCompute ==
  /\ wtPc = "distances"
  /\ Len(wtDistances) = 3
  /\ LET matches == [i \in 1..3 |-> [name |-> AreaA, distance |-> wtDistances[i],
                                     rent |-> Num(1)]]
         operands == InterpolationWeights(matches)
         weights == [i \in 1..Len(operands) |-> DoubleQuotient(operands[i])]
     IN /\ wtWeights' = weights
        /\ wtExactSum' = IF weights = <<>> THEN null
                         ELSE ExactAdd(ExactAdd(weights[1], weights[2]), weights[3])
        /\ wtDoubleSum' = IF weights = <<>> THEN null
                          ELSE DoubleAdd(DoubleAdd(weights[1], weights[2]), weights[3])
  /\ wtPc' = "done"
  /\ UNCHANGED <<wtDistances>>
  /\ UNCHANGED <<kdVars, nmVars, rentVars, areaVars, treeVars, lineVars, csvVars, appVars,
              scoreVars, rowVars, lookupVars>>

NextWeights == WtAddDistance \/ WtCompute

-----------------------------------------------------------------------------
(* Spec: parseTreeData over the areas and rents loaded at start-up: one    *)
(* step per row of the tree table, then the two passes over the trees,     *)
(* one step per tree of each forEach.                                      *)

MaxTreeRows == 2

\* assignTreeFriendsScores and assignAccessibilityScores in the other order
PassOrderSwapped == <<"access", "friends">>

\* lines 268-269 of parseTreeData: the passes in the order they are called
PassOrder == <<"friends", "access">>

unknown == <<"u", "n", "k", "n", "o", "w", "n">>

Area(name, latitude, longitude) ==
  [name |-> normalizeNeighborhoodName(name), latitude |-> latitude, longitude |-> longitude]

\* the area lists of start-up: two areas; three areas, one without a rent;
\* areas around both groups of trees
TreeAreaLists ==
  { << Area(AreaA, 0, 0), Area(AreaB, 1, 1) >>,
    << Area(AreaA, 0, 0), Area(AreaC, 0, 0), Area(AreaB, 1, 1) >>,
    << Area(AreaA, 0, 0), Area(AreaA, 0, 0), Area(AreaB, 1, 1),
       Area(AreaA, 10000, 0), Area(AreaA, 10000, 0), Area(AreaA, 10000, 1) >> }

TreeRentTable == << <<<<"a", "r", "e", "a", "N", "a", "m", "e">>, <<"r", "e", "n", "t">>>>, <<AreaA, <<"1", "5", "0", "0">>>>, <<AreaB, <<"6", "0", "0", "0">>>> >>

\* <<latitude, longitude>> texts of a row; the last is not a number
TreeCoordTexts ==
  { <<<<"0">>, <<"0">>>>, <<<<"0">>, <<"1">>>>, <<<<"1", "0", "0", "0", "0">>, <<"0">>>>, <<<<"x">>, <<"0">>>> }

TreeStatusTexts == { <<"A", "l", "i", "v", "e">>, <<"D", "e", "a", "d">> }

\* <<sidewalk, problems>> texts of a row
TreeConditionTexts == { <<<<"N", "o", "D", "a", "m", "a", "g", "e">>, <<"N", "o", "n", "e">>>>, <<<<"D", "a", "m", "a", "g", "e">>, <<"S", "t", "o", "n", "e", "s">>>> }

TreeStart ==
  /\ treePc = "load"
  /\ treeRowsRead = 0
  /\ treeRows = <<>>
  /\ parsedTrees = <<>>
  /\ treeTrace = <<>>
  /\ treeKdRoot = null
  /\ treeCursor = 0

\* const rentLookup = parseRentData(...); const neighborhoods = parseNeighborhoodData(...)
TreeLoad ==
  /\ treePc = "load"
  /\ rentLookup' = parseRentData(TreeRentTable)
  /\ \E areas \in TreeAreaLists : neighborhoods' = areas
  /\ treePc' = "rows"
  /\ UNCHANGED <<treeRowsRead, treeRows, parsedTrees, treeTrace, treeKdRoot, treeCursor>>
  /\ UNCHANGED <<areaPc, located, rentPc, rentIndices, rentRowsRead>>
  /\ UNCHANGED <<kdVars, nmVars, wtVars, lineVars, csvVars, appVars, scoreVars,
              rowVars, lookupVars>>

\* the tree record of a row whose coordinates are finite (lines 241-264)
TreeRecordOf(row, latitude, longitude, nearestMatches, expectedRent) ==
  [treeId |-> IF Trim(row.tree_id) # <<>> THEN Trim(row.tree_id) ELSE unknown,
   status |-> Trim(row.status),
   sidewalk |-> Trim(row.sidewalk),
   problems |-> Trim(row.problems),
   latitude |-> latitude,
   longitude |-> longitude,
   neighborhood |-> closestNeighborhood(nearestMatches),
   species |-> IF toLowerCase(Trim(row.spc_common)) # <<>>
               THEN toLowerCase(Trim(row.spc_common)) ELSE unknown,
   treeFriendsScore |-> Num(0),
   affordabilityScore |-> AffordabilityOf(expectedRent),
   accessibilityScore |-> null]

\* the texts of a row whose coordinates are numbers, and of the rows whose
\* latitude or longitude is not a number, is infinite, or is left empty
TreeRowTexts ==
  { [status |-> status, sidewalk |-> condition[1], problems |-> condition[2],
     latitude |-> coords[1], longitude |-> coords[2]] :
      coords \in TreeCoordTexts \ {<<<<"x">>, <<"0">>>>}, status \in TreeStatusTexts,
      condition \in TreeConditionTexts }
  \cup
  { [status |-> <<"A", "l", "i", "v", "e">>, sidewalk |-> <<"N", "o", "D", "a", "m", "a", "g", "e">>, problems |-> <<"N", "o", "n", "e">>,
     latitude |-> coords[1], longitude |-> coords[2]] :
      coords \in { <<<<"x">>, <<"0">>>>, <<<<"0">>, InfinityText>>, <<<<>>, <<"0">>>> } }

\* the row's number in the table, the text of its tree_id column
TreeIdTexts == << <<"1">>, <<"2">>, <<"3">>, <<"4">> >>

\* line 239, negated: the row becomes a tree
RowSurvivesOnLatitude(latitude, longitude) == IsFinite(latitude)

RowSurvives(latitude, longitude) == IsFinite(latitude) /\ IsFinite(longitude)

\* map and filter keep the rows' order: the next tree goes last
PushFirst(trees, tree) == <<tree>> \o trees

PushMapped(trees, tree) == Append(trees, tree)

\* the map callback of parseTreeData on one row (lines 230-266)
ParseRowFrom(rowTexts) ==
  /\ treePc = "rows"
  /\ treeRowsRead < MaxTreeRows
  /\ treeRowsRead' = treeRowsRead + 1
  /\ \E texts \in rowTexts :
       LET row == [tree_id |-> TreeIdTexts[treeRowsRead + 1], status |-> texts.status,
                   sidewalk |-> texts.sidewalk, problems |-> texts.problems,
                   latitude |-> texts.latitude, longitude |-> texts.longitude,
                   spc_common |-> <<"O", "a", "k">>]
           latitude == Number(row.latitude)
           longitude == Number(row.longitude)
           \* a distance from a non-finite coordinate is NaN: no area is kept
           nearestMatches ==
             IF IsFinite(latitude) /\ IsFinite(longitude)
             THEN getClosestNeighborhoodMatches(latitude.v, longitude.v, neighborhoods,
                                                rentLookup, NEAREST_NEIGHBOR_COUNT)
             ELSE <<>>
           expectedRent == calculateExpectedRent(nearestMatches)
       IN /\ treeRows' = Append(treeRows, row)
          /\ IF ~RowSurvives(latitude, longitude)
             THEN UNCHANGED <<parsedTrees, treeTrace>>
             ELSE /\ parsedTrees' =
                       PushMapped(parsedTrees,
                                  TreeRecordOf(row, latitude, longitude, nearestMatches,
                                               expectedRent))
                  /\ treeTrace' = PushMapped(treeTrace, [expectedRent |-> expectedRent,
                                                         friendsAssigned |-> FALSE,
                                                         friendsScoreRead |-> null])
  /\ UNCHANGED <<treePc, treeKdRoot, treeCursor>>
  /\ UNCHANGED <<kdVars, nmVars, rentVars, areaVars, wtVars, lineVars, csvVars, appVars,
              scoreVars, rowVars, lookupVars>>

TreeParseRow == ParseRowFrom(TreeRowTexts)

\* the cursor a pass starts with: the density pass builds its index first
FirstCursor(pass) == IF pass = "friends" THEN 0 ELSE 1

\* the rows are exhausted; a table without rows returns [] at line 226
TreeRowsDone ==
  /\ treePc = "rows"
  /\ treePc' = IF treeRowsRead = 0 THEN "done" ELSE PassOrder[1]
  /\ treeCursor' = FirstCursor(PassOrder[1])
  /\ UNCHANGED <<treeRowsRead, treeRows, parsedTrees, treeTrace, treeKdRoot>>
  /\ UNCHANGED <<kdVars, nmVars, rentVars, areaVars, wtVars, lineVars, csvVars, appVars,
              scoreVars, rowVars, lookupVars>>

\* tree.treeFriendsScore = score, written to the affordability score as well
WithScoreInBothFields(trees, i, score) ==
  [trees EXCEPT ![i].treeFriendsScore = score, ![i].affordabilityScore = score]

\* tree.treeFriendsScore = ... (lines 671 and 673)
WithTreeFriendsScore(trees, i, score) ==
  [trees EXCEPT ![i].treeFriendsScore = score]

\* tree.accessibilityScore = ... (line 683)
WithAccessibilityScore(trees, i, score) ==
  [trees EXCEPT ![i].accessibilityScore = score]

\* lines 653-663 of assignTreeFriendsScores
TreeFriendsBuild ==
  /\ treePc = "friends"
  /\ treeCursor = 0
  /\ treeKdRoot' =
       buildKdTree([i \in 1..Len(parsedTrees) |->
                      [latitude |-> parsedTrees[i].latitude.v,
                       longitude |-> parsedTrees[i].longitude.v,
                       index |-> i - 1]], 0)
  /\ treeCursor' = 1
  /\ UNCHANGED <<treePc, treeRowsRead, treeRows, parsedTrees, treeTrace>>
  /\ UNCHANGED <<kdVars, nmVars, rentVars, areaVars, wtVars, lineVars, csvVars, appVars,
              scoreVars, rowVars, lookupVars>>

\* the forEach callback of assignTreeFriendsScores (lines 665-673)
TreeFriendsStep ==
  /\ treePc = "friends"
  /\ treeCursor \in 1..Len(parsedTrees)
  /\ LET tree == parsedTrees[treeCursor]
         point == [latitude |-> tree.latitude.v, longitude |-> tree.longitude.v,
                   index |-> treeCursor - 1]
         distances == findKNearestNeighborDistances(treeKdRoot, point, neighborCount)
     IN /\ parsedTrees' =
             WithTreeFriendsScore(parsedTrees, treeCursor,
                                  getTreeFriendsScore(AverageDistance(distances)))
        /\ treeTrace' = [treeTrace EXCEPT ![treeCursor].friendsAssigned = TRUE]
  /\ treeCursor' = treeCursor + 1
  /\ UNCHANGED <<treePc, treeRowsRead, treeRows, treeKdRoot>>
  /\ UNCHANGED <<kdVars, nmVars, rentVars, areaVars, wtVars, lineVars, csvVars, appVars,
              scoreVars, rowVars, lookupVars>>

\* the forEach callback of assignAccessibilityScores (lines 677-684)
TreeAccessStep ==
  /\ treePc = "access"
  /\ treeCursor \in 1..Len(parsedTrees)
  /\ parsedTrees' =
       WithAccessibilityScore(parsedTrees, treeCursor,
                              AccessibilityScoreOf(parsedTrees[treeCursor]))
  /\ treeTrace' = [treeTrace EXCEPT ![treeCursor].friendsScoreRead =
                                      parsedTrees[treeCursor].treeFriendsScore]
  /\ treeCursor' = treeCursor + 1
  /\ UNCHANGED <<treePc, treeRowsRead, treeRows, treeKdRoot>>
  /\ UNCHANGED <<kdVars, nmVars, rentVars, areaVars, wtVars, lineVars, csvVars, appVars,
              scoreVars, rowVars, lookupVars>>

\* a pass returns: the next call of lines 268-270
TreePassEnd ==
  /\ treePc \in {"friends", "access"}
  /\ treeCursor > Len(parsedTrees)
  /\ treePc' = IF treePc = PassOrder[1] THEN PassOrder[2] ELSE "done"
  /\ treeCursor' = IF treePc = PassOrder[1] THEN FirstCursor(PassOrder[2]) ELSE treeCursor
  /\ UNCHANGED <<treeRowsRead, treeRows, parsedTrees, treeTrace, treeKdRoot>>
  /\ UNCHANGED <<kdVars, nmVars, rentVars, areaVars, wtVars, lineVars, csvVars, appVars,
              scoreVars, rowVars, lookupVars>>

Next ==
  \/ TreeLoad
  \/ TreeParseRow
  \/ TreeRowsDone
  \/ TreeFriendsBuild
  \/ TreeFriendsStep
  \/ TreeAccessStep
  \/ TreePassEnd

-----------------------------------------------------------------------------
(* SpecApp: parseTreeData on a short table, then the App component of the  *)
(* pointer-aware variant over a grid of CELL_COUNT cells: mount, pointer    *)
(* enter and leave, click or tap, and a change of the pointer media query. *)
(* Cells and tree indices count from 0 as in the code.                     *)

CELL_COUNT == 2

Cells == 0..(CELL_COUNT - 1)

\* a row of a live tree at the origin, and a row without a latitude number
AppRowTexts ==
  { [status |-> <<"A", "l", "i", "v", "e">>,
     sidewalk |-> <<"N", "o", "D", "a", "m", "a", "g", "e">>,
     problems |-> <<"N", "o", "n", "e">>,
     latitude |-> latitude, longitude |-> <<"0">>] : latitude \in {<<"0">>, <<"x">>} }

AppParseRow == ParseRowFrom(AppRowTexts)

AppStart ==
  /\ appPc = "unmounted"
  /\ cellTreeIndices = <<>>
  /\ tooltip = null
  /\ isMobile = FALSE
  /\ mobileActiveCell = null
  /\ hovered = null
  /\ openedTree = null

\* what getRandomTreeIndex can return: Math.random() is any number of [0, 1)
getRandomTreeIndex ==
  IF Len(parsedTrees) = 0 THEN {-1} ELSE 0..(Len(parsedTrees) - 1)

\* trees[cellTreeIndices[index]] is a tree, not undefined
HasTree(cell) == cellTreeIndices[cell] \in 0..(Len(parsedTrees) - 1)

\* setTooltip({lines: getTreeTooltipContent(tree), ...})
TooltipOf(treeIndex) == [kind |-> "tooltip", tree |-> treeIndex]

\* the first render of App: useState initializers
AppMount ==
  /\ treePc = "done"
  /\ appPc = "unmounted"
  /\ appPc' = "mounted"
  /\ cellTreeIndices' \in [Cells -> getRandomTreeIndex]
  /\ isMobile' \in BOOLEAN
  /\ UNCHANGED <<tooltip, mobileActiveCell, hovered, openedTree>>
  /\ UNCHANGED <<kdVars, nmVars, rentVars, areaVars, wtVars, treeVars, lineVars,
                 csvVars, scoreVars, rowVars, lookupVars>>

\* handleMouseEnter of Cell
MouseEnter ==
  /\ appPc = "mounted"
  /\ hovered = null
  /\ \E cell \in Cells :
       /\ hovered' = Num(cell)
       /\ tooltip' = IF ~HasTree(cell) \/ isMobile THEN tooltip
                     ELSE TooltipOf(cellTreeIndices[cell])
  /\ UNCHANGED <<appPc, cellTreeIndices, isMobile, mobileActiveCell, openedTree>>
  /\ UNCHANGED <<kdVars, nmVars, rentVars, areaVars, wtVars, treeVars, lineVars,
                 csvVars, scoreVars, rowVars, lookupVars>>

\* handleMouseMove of Cell: onHoverMove is updateTooltip
MouseMove ==
  /\ appPc = "mounted"
  /\ hovered # null
  /\ tooltip' = IF ~HasTree(hovered.v) \/ isMobile THEN tooltip
                ELSE TooltipOf(cellTreeIndices[hovered.v])
  /\ UNCHANGED <<appPc, cellTreeIndices, isMobile, mobileActiveCell, hovered, openedTree>>
  /\ UNCHANGED <<kdVars, nmVars, rentVars, areaVars, wtVars, treeVars, lineVars,
                 csvVars, scoreVars, rowVars, lookupVars>>

\* the tree index the cell keeps instead of a random one
SameTreeIndex(cell) == {cellTreeIndices[cell]}

\* next[cellIndex] = getRandomTreeIndex()
ReplacementIndex(cell) == getRandomTreeIndex

\* the state handleCellMouseLeave(cell) leaves: <<cellTreeIndices, mobileActiveCell>>
handleCellMouseLeave(cell) ==
  IF Len(parsedTrees) = 0
  THEN { <<cellTreeIndices, mobileActiveCell>> }
  ELSE { << [cellTreeIndices EXCEPT ![cell] = index],
            IF mobileActiveCell = Num(cell) THEN null ELSE mobileActiveCell >> :
           index \in ReplacementIndex(cell) }

\* handleMouseLeave of Cell: onHoverEnd() and onMouseLeave()
MouseLeave ==
  /\ appPc = "mounted"
  /\ hovered # null
  /\ hovered' = null
  /\ IF isMobile
     THEN UNCHANGED <<cellTreeIndices, tooltip, mobileActiveCell>>
     ELSE /\ tooltip' = null
          /\ \E after \in handleCellMouseLeave(hovered.v) :
               /\ cellTreeIndices' = after[1]
               /\ mobileActiveCell' = after[2]
  /\ UNCHANGED <<appPc, isMobile, openedTree>>
  /\ UNCHANGED <<kdVars, nmVars, rentVars, areaVars, wtVars, treeVars, lineVars,
                 csvVars, scoreVars, rowVars, lookupVars>>

\* handleClick of Cell on a cell that shows a tree
Click ==
  /\ appPc = "mounted"
  /\ \E cell \in Cells :
       /\ HasTree(cell)
       /\ IF ~isMobile
          THEN \* openTreeLocation(tree)
               /\ openedTree' = Num(cellTreeIndices[cell])
               /\ UNCHANGED <<cellTreeIndices, tooltip, mobileActiveCell>>
          ELSE IF mobileActiveCell = Num(cell)
          THEN \* onHoverEnd(); onMouseLeave(); openTreeLocation(tree)
               /\ tooltip' = null
               /\ \E after \in handleCellMouseLeave(cell) :
                    /\ cellTreeIndices' = after[1]
                    /\ mobileActiveCell' = after[2]
               /\ openedTree' = Num(cellTreeIndices[cell])
          ELSE \* handleMobileTooltipRequest(cell, event, tree)
               /\ IF mobileActiveCell # null
                  THEN \E after \in handleCellMouseLeave(mobileActiveCell.v) :
                         cellTreeIndices' = after[1]
                  ELSE UNCHANGED cellTreeIndices
               /\ mobileActiveCell' = Num(cell)
               /\ tooltip' = TooltipOf(cellTreeIndices[cell])
               /\ UNCHANGED openedTree
  /\ UNCHANGED <<appPc, isMobile, hovered>>
  /\ UNCHANGED <<kdVars, nmVars, rentVars, areaVars, wtVars, treeVars, lineVars,
                 csvVars, scoreVars, rowVars, lookupVars>>

\* handleChange of useIsMobile and the effect on isMobile of App
MediaChange ==
  /\ appPc = "mounted"
  /\ isMobile' = ~isMobile
  /\ mobileActiveCell' = IF ~isMobile' THEN null ELSE mobileActiveCell
  /\ UNCHANGED <<appPc, cellTreeIndices, tooltip, hovered, openedTree>>
  /\ UNCHANGED <<kdVars, nmVars, rentVars, areaVars, wtVars, treeVars, lineVars,
                 csvVars, scoreVars, rowVars, lookupVars>>

NextApp ==
  \/ TreeLoad
  \/ AppParseRow
  \/ TreeRowsDone
  \/ TreeFriendsBuild
  \/ TreeFriendsStep
  \/ TreeAccessStep
  \/ TreePassEnd
  \/ AppMount
  \/ MouseEnter
  \/ MouseMove
  \/ MouseLeave
  \/ Click
  \/ MediaChange

\* tree i of the two lists differs at most in the named score
SameButTreeFriendsScore(before, after) ==
  /\ Len(after) = Len(before)
  /\ \A i \in 1..Len(before) :
       [after[i] EXCEPT !.treeFriendsScore = before[i].treeFriendsScore] = before[i]

SameButAccessibilityScore(before, after) ==
  /\ Len(after) = Len(before)
  /\ \A i \in 1..Len(before) :
       [after[i] EXCEPT !.accessibilityScore = before[i].accessibilityScore] = before[i]

\* C16: a step of the density pass changes at most the density score of the
\* trees, a step of the composite pass at most their composite score, and
\* neither changes the area list or the rent lookup; once parseTreeData has
\* returned, no step (mount, enter, leave, click or tap, media change, with
\* the random re-selection of a cell's tree) changes the trees, the area
\* list or the rent lookup.
PassesAndAppKeepTheirFrame ==
  [][/\ treePc = "friends" => /\ SameButTreeFriendsScore(parsedTrees, parsedTrees')
                              /\ UNCHANGED <<neighborhoods, rentLookup>>
     /\ treePc = "access" => /\ SameButAccessibilityScore(parsedTrees, parsedTrees')
                             /\ UNCHANGED <<neighborhoods, rentLookup>>
     /\ treePc = "done" => UNCHANGED <<parsedTrees, neighborhoods, rentLookup>>]_vars

\* both passes have scored two trees, then the grid was used: a tooltip is
\* shown for the active cell of the pointer-less layout, a location has been
\* opened, and the two cells show different trees
ScoredTreesBehindUsedGrid ==
  /\ appPc = "mounted"
  /\ Len(parsedTrees) = 2
  /\ \A i \in 1..2 : /\ parsedTrees[i].accessibilityScore # null
                     /\ parsedTrees[i].accessibilityScore.v > 0
                     /\ parsedTrees[i].treeFriendsScore.v > 0
  /\ cellTreeIndices[0] # cellTreeIndices[1]
  /\ mobileActiveCell # null
  /\ tooltip # null
  /\ openedTree # null

\* C17: when the pointer leaves a cell of the pointer layout, the tree index
\* of that cell after the leave differs from the index before it.
LeaveShowsAnotherTree ==
  [][\A cell \in Cells :
       (/\ appPc = "mounted"
        /\ ~isMobile
        /\ hovered = Num(cell)
        /\ hovered' = null) => cellTreeIndices'[cell] # cellTreeIndices[cell]]_vars

\* C29: after any interleaving of pointer enter, move and leave, taps and
\* changes of the pointer media query, a tooltip is shown only while a cell
\* is hovered or is the active tapped cell: when no cell is hovered and
\* mobileActiveCell is null, tooltip is null.
TooltipOnlyWhileHoveredOrActive ==
  (appPc = "mounted" /\ hovered = null /\ mobileActiveCell = null) => tooltip = null

-----------------------------------------------------------------------------
(* Claims on Spec *)

Trees == 1..Len(parsedTrees)

\* a number that is neither NaN nor infinite, between two bounds
FiniteWithin(x, low, high) == IsFinite(x) /\ low <= x.v /\ x.v <= high

\* C2: once parseTreeData has returned, every tree's density score is finite
\* and in [0, 10], its affordability score is null or finite and in [0, 10],
\* and its composite score is finite and in [0, 11]; none is NaN or infinite.
ScoresFiniteAndBounded ==
  treePc = "done" =>
    \A i \in Trees :
      /\ FiniteWithin(parsedTrees[i].treeFriendsScore, 0, 10000)
      /\ \/ parsedTrees[i].affordabilityScore = null
         \/ FiniteWithin(parsedTrees[i].affordabilityScore, 0, 10000)
      /\ parsedTrees[i].accessibilityScore # null
      /\ FiniteWithin(parsedTrees[i].accessibilityScore, 0, 110000)

\* two returned trees: one far from the other, its density score clamped at
\* 0 and its affordability score clamped at 10; one with an affordability
\* score and a composite score above 4
ScoresSpanTheirRanges ==
  /\ treePc = "done"
  /\ \E i \in Trees, j \in Trees :
       /\ parsedTrees[i].treeFriendsScore.v = 0
       /\ parsedTrees[i].affordabilityScore = Num(10000)
       /\ parsedTrees[j].affordabilityScore # null
       /\ parsedTrees[j].accessibilityScore.v > 40000

\* C3: the composite pass reads a tree only after the density pass has
\* assigned every tree; both passes run after every tree is constructed with
\* its affordability score, which no pass changes; so the density score a
\* tree's composite score was computed from is the tree's final density
\* score, never the placeholder of construction.
DensityPassBeforeCompositePass ==
  \A i \in Trees :
    /\ (treeTrace[i].friendsAssigned \/ treeTrace[i].friendsScoreRead # null)
         => treePc \in {"friends", "access", "done"}
    /\ parsedTrees[i].affordabilityScore = AffordabilityOf(treeTrace[i].expectedRent)
    /\ treeTrace[i].friendsScoreRead # null
         => /\ \A j \in Trees : treeTrace[j].friendsAssigned
            /\ treeTrace[i].friendsScoreRead = parsedTrees[i].treeFriendsScore
            /\ parsedTrees[i].accessibilityScore = AccessibilityScoreOf(parsedTrees[i])

\* the composite pass is under way on two trees, the first composite score
\* written from a density score that is not the placeholder 0
CompositeReadFinalDensity ==
  /\ treePc = "access"
  /\ Len(parsedTrees) = 2
  /\ treeCursor = 2
  /\ treeTrace[1].friendsScoreRead # null
  /\ treeTrace[1].friendsScoreRead.v > 0
  /\ parsedTrees[1].accessibilityScore.v > 0

\* C5: a tree whose status is "dead" in any capitals has composite score 0
\* once the composite pass has written it, and health score 0, whatever its
\* density and affordability scores, sidewalk and problems are.
DeadTreeScoresZero ==
  \A i \in Trees :
    toLowerCase(parsedTrees[i].status) = dead
      => /\ calculateHealthScore(parsedTrees[i]) = 0
         /\ treeTrace[i].friendsScoreRead # null
              => parsedTrees[i].accessibilityScore = Num(0)
         /\ treePc = "done" => parsedTrees[i].accessibilityScore = Num(0)

\* a returned tree with status "Dead", positive density and affordability
\* scores, undamaged sidewalk and no problems: composite score 0
DeadTreeWithPositiveScores ==
  /\ treePc = "done"
  /\ \E i \in Trees :
       /\ parsedTrees[i].status = <<"D", "e", "a", "d">>
       /\ parsedTrees[i].sidewalk = <<"N", "o", "D", "a", "m", "a", "g", "e">>
       /\ parsedTrees[i].treeFriendsScore.v > 0
       /\ parsedTrees[i].affordabilityScore # null
       /\ parsedTrees[i].affordabilityScore.v > 0
       /\ parsedTrees[i].accessibilityScore = Num(0)

\* C9 as stated: a tree built from a null estimate has affordability score 0.
NullEstimateScoresZero ==
  \A i \in Trees :
    treeTrace[i].expectedRent = null => parsedTrees[i].affordabilityScore = Num(0)

\* C9, amended: a tree built from a null estimate has the affordability
\* score null, not 0; normalizeAffordabilityScore turns that null into 0, so
\* the tree's composite score, if the tree is not dead, is its normalized
\* density score plus its health score.
NullEstimateScoresNull ==
  \A i \in Trees :
    treeTrace[i].expectedRent = null
      => /\ parsedTrees[i].affordabilityScore = null
         /\ normalizeAffordabilityScore(parsedTrees[i].affordabilityScore) = 0
         /\ (treePc = "done" /\ toLowerCase(parsedTrees[i].status) # dead)
              => parsedTrees[i].accessibilityScore =
                   Num(normalizeTreeFriendsScore(parsedTrees[i].treeFriendsScore)
                         + calculateHealthScore(parsedTrees[i]) * 10000)

\* a returned live tree without an estimate, its composite score positive
LiveTreeWithoutEstimate ==
  /\ treePc = "done"
  /\ \E i \in Trees :
       /\ treeTrace[i].expectedRent = null
       /\ parsedTrees[i].status = <<"A", "l", "i", "v", "e">>
       /\ parsedTrees[i].affordabilityScore = null
       /\ parsedTrees[i].accessibilityScore.v > 0

\* the rows read so far whose coordinates both coerce to finite numbers
SurvivingRows ==
  SelectSeq(treeRows, LAMBDA row : /\ IsFinite(Number(row.latitude))
                                   /\ IsFinite(Number(row.longitude)))

\* C11: every tree of the collection parseTreeData builds and returns has a
\* finite latitude and a finite longitude, and there are as many trees as
\* rows with two finite coordinates: no other row survives.
CoordinatesFinite ==
  /\ \A i \in Trees : /\ IsFinite(parsedTrees[i].latitude)
                      /\ IsFinite(parsedTrees[i].longitude)
  /\ Len(parsedTrees) = Len(SurvivingRows)

\* parseTreeData has returned one tree from two rows, the other row having
\* an infinite longitude or a latitude that is not a number
NonFiniteRowDropped ==
  /\ treePc = "done"
  /\ Len(treeRows) = 2
  /\ Len(parsedTrees) = 1
  /\ \E i \in 1..2 : \/ Number(treeRows[i].longitude) = Infinity
                     \/ Number(treeRows[i].latitude) = NaN

\* C12: the trees are, in order, the rows with finite coordinates: tree i
\* carries the identifier, coordinates and texts of the i-th such row, while
\* the rows are read, during both passes and once parseTreeData has returned.
TreesInRowOrder ==
  /\ Len(parsedTrees) = Len(SurvivingRows)
  /\ \A i \in 1..Len(parsedTrees) :
       /\ i <= Len(SurvivingRows)
       /\ parsedTrees[i].treeId = Trim(SurvivingRows[i].tree_id)
       /\ parsedTrees[i].latitude = Number(SurvivingRows[i].latitude)
       /\ parsedTrees[i].longitude = Number(SurvivingRows[i].longitude)
       /\ parsedTrees[i].status = Trim(SurvivingRows[i].status)
       /\ parsedTrees[i].sidewalk = Trim(SurvivingRows[i].sidewalk)
       /\ parsedTrees[i].problems = Trim(SurvivingRows[i].problems)

\* parseTreeData has returned two trees, the first row north of the second:
\* sorting by latitude for the index has not reordered them
NorthernTreeStaysFirst ==
  /\ treePc = "done"
  /\ Len(parsedTrees) = 2
  /\ parsedTrees[1].treeId = <<"1">>
  /\ parsedTrees[2].treeId = <<"2">>
  /\ parsedTrees[1].latitude.v > parsedTrees[2].latitude.v
  /\ parsedTrees[2].accessibilityScore # null

-----------------------------------------------------------------------------
(* SpecScore: one tree through the two scoring passes: the average of   *)
(* its neighbour distances to its density score, then its status,          *)
(* sidewalk, problems and the two scores to its health and composite score *)

\* neighbour distances run from 0 to this many metres
MaxNeighborDistance == 90

ScoreStatusTexts ==
  { <<"A", "l", "i", "v", "e">>, <<"D", "e", "a", "d">>, <<"S", "t", "u", "m", "p">>,
    <<"P", "o", "o", "r">> }

ScoreSidewalkTexts ==
  { <<"N", "o", "D", "a", "m", "a", "g", "e">>, <<"D", "a", "m", "a", "g", "e">> }

ScoreProblemTexts == { <<>>, <<"N", "o", "n", "e">>, <<"S", "t", "o", "n", "e", "s">> }

\* affordability scores parseTreeData constructs a tree with
ScoreAffordabilityScores == { null, Num(0), Num(5000), Num(10000) }

\* results of findKNearestNeighborDistances, nearest last: one neighbour, or
\* two a metre apart
ScoreDistanceLists ==
  { <<distance>> : distance \in 0..MaxNeighborDistance }
    \cup { <<distance + 1, distance>> : distance \in 0..MaxNeighborDistance }

\* averages no list of finite distances gives
ScoreOtherAverages == { NaN, Infinity, NegativeInfinity, Num(Fraction(-3, 1)) }

ScoreStart ==
  /\ scorePc = "draw"
  /\ scoreTree = null
  /\ scoreNeighbors = 0
  /\ scoreAverage = null
  /\ scoreHealth = null

\* a tree as parseTreeData constructs it (lines 252-264), with the average
\* of the distances assignTreeFriendsScores found for it
ScoreDrawWith(neighbors, averageDistance) ==
  /\ scorePc = "draw"
  /\ \E status \in ScoreStatusTexts, sidewalk \in ScoreSidewalkTexts,
        problems \in ScoreProblemTexts, affordabilityScore \in ScoreAffordabilityScores :
       scoreTree' = [status |-> Trim(status), sidewalk |-> Trim(sidewalk),
                     problems |-> Trim(problems), treeFriendsScore |-> Num(0),
                     affordabilityScore |-> affordabilityScore,
                     accessibilityScore |-> null]
  /\ scoreNeighbors' = neighbors
  /\ scoreAverage' = averageDistance
  /\ scorePc' = "friends"
  /\ UNCHANGED scoreHealth
  /\ UNCHANGED <<kdVars, nmVars, rentVars, areaVars, wtVars, treeVars, lineVars,
                 csvVars, appVars, rowVars, lookupVars>>

\* the only tree of its table: the search over a tree of one node
ScoreDrawAlone ==
  LET point == [latitude |-> 0, longitude |-> 0, index |-> 0]
      distances == findKNearestNeighborDistances(buildKdTree(<<point>>, 0), point,
                                                 neighborCount)
  IN ScoreDrawWith(Len(distances), AverageDistance(distances))

ScoreDrawNeighbors ==
  \E distances \in ScoreDistanceLists :
    ScoreDrawWith(Len(distances), AverageDistance(distances))

\* getTreeFriendsScore on an average that is not a quotient of distances
ScoreDrawAverage ==
  \E averageDistance \in ScoreOtherAverages : ScoreDrawWith(neighborCount, averageDistance)

\* point.tree.treeFriendsScore = getTreeFriendsScore(averageDistance) (line 672)
ScoreFriends ==
  /\ scorePc = "friends"
  /\ scoreTree' = [scoreTree EXCEPT !.treeFriendsScore = getTreeFriendsScore(scoreAverage)]
  /\ scorePc' = "access"
  /\ UNCHANGED <<scoreNeighbors, scoreAverage, scoreHealth>>
  /\ UNCHANGED <<kdVars, nmVars, rentVars, areaVars, wtVars, treeVars, lineVars,
                 csvVars, appVars, rowVars, lookupVars>>

\* the forEach callback of assignAccessibilityScores (lines 677-684)
ScoreAccess ==
  /\ scorePc = "access"
  /\ scoreHealth' = calculateHealthScore(scoreTree)
  /\ scoreTree' = [scoreTree EXCEPT !.accessibilityScore = AccessibilityScoreOf(scoreTree)]
  /\ scorePc' = "done"
  /\ UNCHANGED <<scoreNeighbors, scoreAverage>>
  /\ UNCHANGED <<kdVars, nmVars, rentVars, areaVars, wtVars, treeVars, lineVars,
                 csvVars, appVars, rowVars, lookupVars>>

NextScore ==
  \/ ScoreDrawAlone
  \/ ScoreDrawNeighbors
  \/ ScoreDrawAverage
  \/ ScoreFriends
  \/ ScoreAccess

\* the averages of the distance lists
ScoreAverages == { AverageDistance(distances) : distances \in ScoreDistanceLists }

\* C23: the density score is 10 when the point has no neighbour and when
\* the average distance is not finite, is <= 0 or is below 2 metres;
\* otherwise it is 10 - 0.12 * (average - 2) clamped to [0, 10] (here in
\* whole thousandths), so it is 0 from 85.34 metres on and no greater
\* average has a greater score.
DensityScoreFallsWithAverage ==
  scorePc \in {"access", "done"} =>
    LET score == scoreTree.treeFriendsScore
    IN /\ IsFinite(score)
       /\ scoreNeighbors = 0 => score.v = 10000
       /\ ~IsFinite(scoreAverage) => score.v = 10000
       /\ IsFinite(scoreAverage) =>
            LET n == scoreAverage.v.n
                d == scoreAverage.v.d
                raw == 10000 * d - 120 * (n - 2 * d)
            IN /\ d > 0
               /\ (n <= 0 \/ n < 2 * d) => score.v = 10000
               /\ (n >= 2 * d /\ raw <= 0) => score.v = 0
               /\ (n >= 2 * d /\ raw > 0) =>
                    /\ score.v * d <= raw
                    /\ raw < (score.v + 1) * d
                    /\ score.v <= 10000
               /\ n * 100 >= 8534 * d => score.v = 0
               /\ \A other \in ScoreAverages :
                    ~FractionLess(other.v, scoreAverage.v)
                      => getTreeFriendsScore(other).v <= score.v

\* a point whose neighbours are 50 metres away on average: 10 - 0.12 * 48
DensityScoreOfFiftyMetres ==
  /\ scorePc = "done"
  /\ scoreNeighbors = 1
  /\ scoreAverage = Num(Fraction(50, 1))
  /\ scoreTree.treeFriendsScore = Num(4240)

\* the mismatches of a tree: its status is not "alive", its sidewalk is
\* not "nodamage", its problems are given and not "none", in any capitals
ScoreMismatches ==
  (IF toLowerCase(scoreTree.status) = alive THEN {} ELSE {"status"})
    \cup (IF toLowerCase(scoreTree.sidewalk) = nodamage THEN {} ELSE {"sidewalk"})
    \cup (IF scoreTree.problems = <<>> \/ toLowerCase(scoreTree.problems) = none
          THEN {} ELSE {"problems"})

\* C24: the health score is one of 0, 1, 2, 3: 0 when the status is "stump"
\* or "dead" in any capitals; otherwise 3 with no mismatch, 2 with one and 1
\* with two or three, so never 0 for a tree that is neither dead nor a
\* stump.
HealthScoreCountsMismatches ==
  scorePc = "done" =>
    /\ scoreHealth \in {0, 1, 2, 3}
    /\ IF toLowerCase(scoreTree.status) \in {stump, dead}
       THEN scoreHealth = 0
       ELSE /\ scoreHealth # 0
            /\ Cardinality(ScoreMismatches) = 0 => scoreHealth = 3
            /\ Cardinality(ScoreMismatches) = 1 => scoreHealth = 2
            /\ Cardinality(ScoreMismatches) >= 2 => scoreHealth = 1

\* a tree of status "Poor" with a damaged sidewalk and a problem: three
\* mismatches, health score 1
ThreeMismatchesScoreOne ==
  /\ scorePc = "done"
  /\ scoreTree.status = <<"P", "o", "o", "r">>
  /\ ScoreMismatches = {"status", "sidewalk", "problems"}
  /\ scoreHealth = 1

\* C25: for a tree whose status is not "dead", the composite score is
\* density / 10 * 4 + affordability / 10 * 4 + health, a null affordability
\* score counting as 0; it lies in [0, 11]; a stump, whose health score is
\* 0, keeps the sum of the two normalized scores.  (Scores in thousandths,
\* the composite score in ten-thousandths.)
CompositeIsSumOfThree ==
  (scorePc = "done" /\ toLowerCase(Trim(scoreTree.status)) # dead) =>
    LET density == scoreTree.treeFriendsScore.v
        affordability == IF scoreTree.affordabilityScore = null THEN 0
                         ELSE scoreTree.affordabilityScore.v
        composite == scoreTree.accessibilityScore
    IN /\ IsFinite(composite)
       /\ composite.v = 4 * density + 4 * affordability + 10000 * scoreHealth
       /\ 0 <= composite.v /\ composite.v <= 110000
       /\ toLowerCase(scoreTree.status) = stump
            => composite.v = 4 * density + 4 * affordability

\* a stump with neighbours 50 metres away and affordability score 5:
\* composite score 4.24 * 0.4 + 5 * 0.4 = 3.696
StumpKeepsBothScores ==
  /\ scorePc = "done"
  /\ scoreTree.status = <<"S", "t", "u", "m", "p">>
  /\ scoreHealth = 0
  /\ scoreTree.treeFriendsScore = Num(4240)
  /\ scoreTree.affordabilityScore = Num(5000)
  /\ scoreTree.accessibilityScore = Num(36960)

-----------------------------------------------------------------------------
(* SpecRows: the rows of a table whose header and lines vary, through   *)
(* the map callbacks of parseTreeData and parseNeighborhoodData, with no   *)
(* area loaded.                                                            *)

MaxRowLines == 2

latitudeHeader == <<"l", "a", "t", "i", "t", "u", "d", "e">>

longitudeHeader == <<"l", "o", "n", "g", "i", "t", "u", "d", "e">>

nameHeader == <<"n", "a", "m", "e">>

\* header lines: both columns, in two orders; a capital; other names; a
\* leading blank; no longitude column
RowHeaderLines ==
  { latitudeHeader \o <<Comma>> \o longitudeHeader,
    longitudeHeader \o <<Comma>> \o nameHeader \o <<Comma>> \o latitudeHeader,
    <<"L", "a", "t", "i", "t", "u", "d", "e">> \o <<Comma>> \o longitudeHeader,
    <<"l", "a", "t", ",", "l", "o", "n">>,
    <<" ">> \o latitudeHeader \o <<Comma>> \o longitudeHeader,
    nameHeader \o <<Comma>> \o latitudeHeader }

\* data lines: full, short, with an empty or a blank field, with a field
\* that is not a number
RowLines ==
  { <<"1", ",", "0">>, <<"1">>, <<",", "1">>, <<" ", ",", "1">>, <<"1", ",">>,
    <<",">>, <<" ">>, <<"x", ",", "1">>, <<"1", ",", "A", ",", "0">>,
    <<"1", ",", "A">>, <<"1", ",", ",", " ">> }

RowStart ==
  /\ rowPc = "header"
  /\ rowHeaders = <<>>
  /\ rowTrace = <<>>
  /\ rowTrees = <<>>
  /\ rowAreas = <<>>

\* the last column of that name, from 1; 0 when no column has it
LastColumn(headers, name) ==
  IF \E i \in 1..Len(headers) : headers[i] = name
  THEN CHOOSE i \in 1..Len(headers) :
         /\ headers[i] = name
         /\ \A j \in (i + 1)..Len(headers) : headers[j] # name
  ELSE 0

\* headers.reduce((acc, header, index) => { acc[header] = values[index] ?? '' }, {})
RowOf(headers, values) ==
  [header \in {headers[i] : i \in 1..Len(headers)} |->
     OrEmpty(ValueAt(values, LastColumn(headers, header) - 1))]

\* row.name: undefined when the row has no such property
RowField(row, name) == IF name \in DOMAIN row THEN row[name] ELSE undefined

\* the properties the tree record is built from, a missing one as ''
\* (lines 253-260)
TreeRowOf(row) ==
  [tree_id |-> OrEmpty(RowField(row, <<"t", "r", "e", "e", "_", "i", "d">>)),
   status |-> OrEmpty(RowField(row, <<"s", "t", "a", "t", "u", "s">>)),
   sidewalk |-> OrEmpty(RowField(row, <<"s", "i", "d", "e", "w", "a", "l", "k">>)),
   problems |-> OrEmpty(RowField(row, <<"p", "r", "o", "b", "l", "e", "m", "s">>)),
   spc_common |-> OrEmpty(RowField(row, <<"s", "p", "c", "_", "c", "o", "m", "m", "o", "n">>))]

\* const headers = parseCsvLine(lines[0])
RowsHeader ==
  /\ rowPc = "header"
  /\ \E line \in RowHeaderLines : rowHeaders' = parseCsvLine(line)
  /\ rowPc' = "rows"
  /\ UNCHANGED <<rowTrace, rowTrees, rowAreas>>
  /\ UNCHANGED <<kdVars, nmVars, rentVars, areaVars, wtVars, treeVars, lineVars,
                 csvVars, appVars, scoreVars, lookupVars>>

\* the map callbacks of lines 230-266 and 280-295 on one more line, and the
\* filters after them
RowsParse ==
  /\ rowPc = "rows"
  /\ Len(rowTrace) < MaxRowLines
  /\ \E line \in RowLines :
       LET values == parseCsvLine(line)
           row == RowOf(rowHeaders, values)
           latitude == Number(RowField(row, latitudeHeader))
           longitude == Number(RowField(row, longitudeHeader))
           kept == IsFinite(latitude) /\ IsFinite(longitude)
           nearestMatches ==
             IF kept
             THEN getClosestNeighborhoodMatches(latitude.v, longitude.v, neighborhoods,
                                                rentLookup, NEAREST_NEIGHBOR_COUNT)
             ELSE <<>>
       IN /\ rowTrace' = Append(rowTrace,
                                [values |-> values,
                                 tree |-> IF kept THEN Len(rowTrees) + 1 ELSE 0,
                                 area |-> IF kept THEN Len(rowAreas) + 1 ELSE 0])
          /\ rowTrees' =
               IF kept
               THEN Append(rowTrees,
                           TreeRecordOf(TreeRowOf(row), latitude, longitude, nearestMatches,
                                        calculateExpectedRent(nearestMatches)))
               ELSE rowTrees
          /\ rowAreas' =
               IF kept
               THEN Append(rowAreas,
                           [name |-> normalizeNeighborhoodName(OrEmpty(RowField(row, nameHeader))),
                            latitude |-> latitude, longitude |-> longitude])
               ELSE rowAreas
  /\ UNCHANGED <<rowPc, rowHeaders>>
  /\ UNCHANGED <<kdVars, nmVars, rentVars, areaVars, wtVars, treeVars, lineVars,
                 csvVars, appVars, scoreVars, lookupVars>>

NextRows == RowsHeader \/ RowsParse

\* the field of a line under a column, from 1: <<>> when the line is too
\* short to have it
FieldUnder(values, column) == IF column <= Len(values) THEN values[column] ELSE <<>>

IsBlank(text) == \A i \in 1..Len(text) : text[i] = " "

\* what a field that is blank or one of the digits 0 and 1 stands for
CoordinateOf(text) == IF text = <<"1">> THEN Num(1) ELSE Num(0)

\* C27: under a header with a column named exactly "latitude" and one named
\* exactly "longitude", a line whose two fields are each a number, empty,
\* blank or missing from a short line gives a tree and an area, with 0 for
\* each coordinate that is empty, blank or missing; under a header without
\* one of the two columns no line gives a tree or an area.
EmptyCoordinateIsZero ==
  rowPc = "rows" =>
    LET latitudeColumn == LastColumn(rowHeaders, latitudeHeader)
        longitudeColumn == LastColumn(rowHeaders, longitudeHeader)
    IN IF latitudeColumn = 0 \/ longitudeColumn = 0
       THEN rowTrees = <<>> /\ rowAreas = <<>>
       ELSE \A k \in 1..Len(rowTrace) :
              LET latitudeText == FieldUnder(rowTrace[k].values, latitudeColumn)
                  longitudeText == FieldUnder(rowTrace[k].values, longitudeColumn)
              IN (/\ IsBlank(latitudeText) \/ latitudeText \in {<<"0">>, <<"1">>}
                  /\ IsBlank(longitudeText) \/ longitudeText \in {<<"0">>, <<"1">>})
                   => /\ rowTrace[k].tree \in 1..Len(rowTrees)
                      /\ rowTrace[k].area \in 1..Len(rowAreas)
                      /\ rowTrees[rowTrace[k].tree].latitude = CoordinateOf(latitudeText)
                      /\ rowTrees[rowTrace[k].tree].longitude = CoordinateOf(longitudeText)
                      /\ rowAreas[rowTrace[k].area].latitude = CoordinateOf(latitudeText)
                      /\ rowAreas[rowTrace[k].area].longitude = CoordinateOf(longitudeText)

\* under "latitude,longitude": the short line "1" and the line " ,1" both
\* kept, the first with longitude 0, the second with latitude 0
ShortAndBlankRowsKept ==
  /\ rowPc = "rows"
  /\ rowHeaders = <<latitudeHeader, longitudeHeader>>
  /\ Len(rowTrace) = 2
  /\ rowTrace[1].values = << <<"1">> >>
  /\ rowTrace[2].values = << <<" ">>, <<"1">> >>
  /\ Len(rowTrees) = 2 /\ Len(rowAreas) = 2
  /\ rowTrees[1].longitude = Num(0) /\ rowAreas[1].longitude = Num(0)
  /\ rowTrees[2].latitude = Num(0) /\ rowAreas[2].latitude = Num(0)

-----------------------------------------------------------------------------
(* SpecLookup: a rent table under the header areaName,rent read line by *)
(* line, then names looked up in it.                                       *)

MaxLookupRows == 2

\* area names: none, blank, two spellings of one name, a misspelling with
\* an alias and what it stands for, "Unknown"
LookupNameTexts ==
  { <<>>, <<" ">>, <<"A">>, <<" ", "a">>,
    <<"G", "r", "a", "m", "e", "c", "y", " ", "P", "a", "r", "k">>,
    <<"G", "R", "A", "M", "E", "R", "C", "Y", " ", " ", "P", "A", "R", "K">>,
    Unknown }

\* rent fields: two numbers and a text that is not one
LookupRentTexts == { <<"1">>, <<"2">>, <<"x">> }

LookupStart ==
  /\ rentRows = <<>>
  /\ lookupName = undefined
  /\ lookupRent = null

\* the forEach callback of parseRentData (lines 316-322) on one more line
LookupParseRow ==
  /\ lookupName = undefined
  /\ Len(rentRows) < MaxLookupRows
  /\ \E name \in LookupNameTexts, rent \in LookupRentTexts :
       /\ rentRows' = Append(rentRows, [name |-> name, rent |-> rent])
       /\ rentLookup' = ParseRentRow(rentLookup, <<name, rent>>, 0, 1)
  /\ UNCHANGED <<lookupName, lookupRent>>
  /\ UNCHANGED <<rentPc, rentIndices, rentRowsRead>>
  /\ UNCHANGED <<kdVars, nmVars, areaVars, wtVars, treeVars, lineVars, csvVars, appVars,
                 scoreVars, rowVars>>

\* getNeighborhoodRent(name, rentLookup) on the table as read
LookupGet ==
  /\ \E name \in LookupNameTexts :
       /\ lookupName' = name
       /\ lookupRent' = getNeighborhoodRent(name, rentLookup)
  /\ UNCHANGED rentRows
  /\ UNCHANGED <<kdVars, nmVars, rentVars, areaVars, wtVars, treeVars, lineVars,
                 csvVars, appVars, scoreVars, rowVars>>

NextLookup == LookupParseRow \/ LookupGet

\* the lines whose name has the key of the name looked up and whose rent is
\* a finite number
LookupMatchingRows ==
  { k \in 1..Len(rentRows) :
      /\ normalizeRentKey(rentRows[k].name) = normalizeRentKey(lookupName)
      /\ rentRows[k].rent \in {<<"1">>, <<"2">>} }

\* C28: getNeighborhoodRent(y) is null when y normalizes to the empty name
\* or to "Unknown" or when no line with a finite rent has a name x with
\* normalizeRentKey(x) = normalizeRentKey(y); otherwise it is the rent of
\* the last such line.  No key of the table is empty, and none is one of
\* the misspelled names "gramecy park" and "stuyvesant town".
RentOfLastLineWithTheKey ==
  /\ \A key \in DOMAIN rentLookup : key \notin {<<>>, GramecyPark, StuyvesantTown}
  /\ lookupName # undefined =>
       IF \/ Trim(lookupName) = <<>>
          \/ normalizeNeighborhoodName(lookupName) = Unknown
          \/ LookupMatchingRows = {}
       THEN lookupRent = null
       ELSE LET last == CHOOSE k \in LookupMatchingRows :
                          \A j \in LookupMatchingRows : j <= k
            IN lookupRent = (IF rentRows[last].rent = <<"1">> THEN Num(1) ELSE Num(2))

\* "Gramecy Park" at 1, then "GRAMERCY  PARK" at 2: the misspelled name
\* looked up gives 2, under the one key "gramercy park"
AliasFindsLastRow ==
  /\ Len(rentRows) = 2
  /\ rentRows[1] = [name |-> <<"G", "r", "a", "m", "e", "c", "y", " ", "P", "a", "r", "k">>,
                    rent |-> <<"1">>]
  /\ rentRows[2].rent = <<"2">>
  /\ rentRows[2].name # rentRows[1].name
  /\ DOMAIN rentLookup = {GramercyPark}
  /\ lookupName = rentRows[1].name
  /\ lookupRent = Num(2)

-----------------------------------------------------------------------------
(* Specifications *)

Init ==
  /\ KdStart /\ NmStart /\ RentStart /\ AreaStart /\ WtStart /\ TreeStart
  /\ LineStart /\ CsvStart /\ AppStart /\ ScoreStart
  /\ RowStart /\ LookupStart

Spec == Init /\ [][Next]_vars

SpecKd == Init /\ [][NextKd]_vars

SpecNames == Init /\ [][NextNames]_vars

SpecRent == Init /\ [][NextRent]_vars

SpecArea == Init /\ [][NextArea]_vars

SpecWeights == Init /\ [][NextWeights]_vars

SpecResolve == Init /\ [][NextResolve]_vars

SpecApp == Init /\ [][NextApp]_vars

SpecLines == Init /\ [][NextLines]_vars

SpecCsv == Init /\ [][NextCsv]_vars

SpecScore == Init /\ [][NextScore]_vars

SpecRows == Init /\ [][NextRows]_vars

SpecLookup == Init /\ [][NextLookup]_vars

====
